---- MODULE Spec2Model ----
(***************************************************************************)
(* Model of src/src/lang.rs: the Lexer (character scanner) and the Parser  *)
(* (recursive descent over a materialised token list) of the digital logic *)
(* description language.                                                   *)
(*                                                                         *)
(* A char is its Unicode code point (0..1114111), a String a sequence of   *)
(* chars, and Option<char>::None is -1.  A TokenKind is a record           *)
(* [kind, name]; name is the text of an Identifier and <<>> otherwise.     *)
(* Characters are classified and upper-cased as Rust's char and str        *)
(* methods do: by the Unicode properties Alphabetic, Numeric (the general  *)
(* categories Nd, Nl, No) and White_Space, and by the Unicode upper-case   *)
(* mappings of UnicodeData and SpecialCasing, here in the tables of        *)
(* Unicode 17.0.                                                           *)
(***************************************************************************)
EXTENDS Integers, Sequences, FiniteSets, TLC

VARIABLES lexer, last, emitted, calls, direct, parser, pc, frame, subcircuits, result

lexvars == <<lexer, last, emitted, calls, direct>>
parvars == <<parser, pc, frame, subcircuits, result>>
vars == <<lexer, last, emitted, calls, direct, parser, pc, frame, subcircuits, result>>

(***************************************************************************)
(* Bounds of the checked instances.                                        *)
(***************************************************************************)
MaxSrcLen == 4
MaxExtraCalls == 1
MaxSubs == 2
MaxComps == 2
MaxPorts == 2
MaxTokens == 55
MaxBlank == 2
MaxDirectCalls == 1
MaxDirectLen == 2
MaxWideLen == 3

(***************************************************************************)
(* Characters.  A char is its Unicode code point.                          *)
(***************************************************************************)
\* Option<char>::None
None == -1

\* The characters the scanner names.
LineFeed == 10
Hash == 35
CharParenOpen == 40
CharParenClose == 41
CharComma == 44
Underscore == 95

\* Notation: the ASCII letters and digits as one-character strings, in code
\* point order, and the code point of an ASCII character written as a string.
AsciiUpper ==
  <<"A", "B", "C", "D", "E", "F", "G", "H", "I", "J", "K", "L", "M",
    "N", "O", "P", "Q", "R", "S", "T", "U", "V", "W", "X", "Y", "Z">>

AsciiLower ==
  <<"a", "b", "c", "d", "e", "f", "g", "h", "i", "j", "k", "l", "m",
    "n", "o", "p", "q", "r", "s", "t", "u", "v", "w", "x", "y", "z">>

AsciiDigits == <<"0", "1", "2", "3", "4", "5", "6", "7", "8", "9">>

Range(s) == {s[i] : i \in DOMAIN s}

IndexIn(s, c) == CHOOSE i \in DOMAIN s : s[i] = c

ord(c) ==
  CASE c \in Range(AsciiUpper) -> 64 + IndexIn(AsciiUpper, c)
    [] c \in Range(AsciiLower) -> 96 + IndexIn(AsciiLower, c)
    [] c \in Range(AsciiDigits) -> 47 + IndexIn(AsciiDigits, c)
    [] c = "\t" -> 9
    [] c = "\n" -> LineFeed
    [] c = " " -> 32
    [] c = "#" -> Hash
    [] c = "$" -> 36
    [] c = "(" -> CharParenOpen
    [] c = ")" -> CharParenClose
    [] c = "," -> CharComma
    [] c = "_" -> Underscore

\* A String is the sequence of its chars: str(<<"i", "n">>) is "in".
RECURSIVE str_from(_, _)
str_from(s, i) == IF i > Len(s) THEN <<>> ELSE <<ord(s[i])>> \o str_from(s, i + 1)

str(s) == str_from(s, 1)

\* The index of the entry <<lo, hi, ...>> of the table t, sorted and without
\* overlap, that has lo <= c <= hi, and 0 when there is none.
RECURSIVE find(_, _, _, _)
find(t, c, lo, hi) ==
  IF lo > hi THEN 0
  ELSE LET mid == (lo + hi) \div 2
       IN IF c < t[mid][1] THEN find(t, c, lo, mid - 1)
          ELSE IF c > t[mid][2] THEN find(t, c, mid + 1, hi)
          ELSE mid

lookup(t, c) == find(t, c, 1, Len(t))

\* The Unicode property Alphabetic above ASCII (Unicode 17.0), as the ranges
\* <<first, last>> of code points that have it.
AlphabeticRanges ==
  <<<<170, 170>>, <<181, 181>>, <<186, 186>>, <<192, 214>>, <<216, 246>>,
    <<248, 705>>, <<710, 721>>, <<736, 740>>, <<748, 748>>, <<750, 750>>,
    <<837, 837>>, <<867, 884>>, <<886, 887>>, <<890, 893>>, <<895, 895>>,
    <<902, 902>>, <<904, 906>>, <<908, 908>>, <<910, 929>>, <<931, 1013>>,
    <<1015, 1153>>, <<1162, 1327>>, <<1329, 1366>>, <<1369, 1369>>, <<1376, 1416>>,
    <<1456, 1469>>, <<1471, 1471>>, <<1473, 1474>>, <<1476, 1477>>, <<1479, 1479>>,
    <<1488, 1514>>, <<1519, 1522>>, <<1552, 1562>>, <<1568, 1623>>, <<1625, 1631>>,
    <<1646, 1747>>, <<1749, 1756>>, <<1761, 1768>>, <<1773, 1775>>, <<1786, 1788>>,
    <<1791, 1791>>, <<1808, 1855>>, <<1869, 1969>>, <<1994, 2026>>, <<2036, 2037>>,
    <<2042, 2042>>, <<2048, 2071>>, <<2074, 2092>>, <<2112, 2136>>, <<2144, 2154>>,
    <<2160, 2183>>, <<2185, 2191>>, <<2199, 2199>>, <<2208, 2249>>, <<2260, 2271>>,
    <<2275, 2281>>, <<2288, 2363>>, <<2365, 2380>>, <<2382, 2384>>, <<2389, 2403>>,
    <<2417, 2435>>, <<2437, 2444>>, <<2447, 2448>>, <<2451, 2472>>, <<2474, 2480>>,
    <<2482, 2482>>, <<2486, 2489>>, <<2493, 2500>>, <<2503, 2504>>, <<2507, 2508>>,
    <<2510, 2510>>, <<2519, 2519>>, <<2524, 2525>>, <<2527, 2531>>, <<2544, 2545>>,
    <<2556, 2556>>, <<2561, 2563>>, <<2565, 2570>>, <<2575, 2576>>, <<2579, 2600>>,
    <<2602, 2608>>, <<2610, 2611>>, <<2613, 2614>>, <<2616, 2617>>, <<2622, 2626>>,
    <<2631, 2632>>, <<2635, 2636>>, <<2641, 2641>>, <<2649, 2652>>, <<2654, 2654>>,
    <<2672, 2677>>, <<2689, 2691>>, <<2693, 2701>>, <<2703, 2705>>, <<2707, 2728>>,
    <<2730, 2736>>, <<2738, 2739>>, <<2741, 2745>>, <<2749, 2757>>, <<2759, 2761>>,
    <<2763, 2764>>, <<2768, 2768>>, <<2784, 2787>>, <<2809, 2812>>, <<2817, 2819>>,
    <<2821, 2828>>, <<2831, 2832>>, <<2835, 2856>>, <<2858, 2864>>, <<2866, 2867>>,
    <<2869, 2873>>, <<2877, 2884>>, <<2887, 2888>>, <<2891, 2892>>, <<2902, 2903>>,
    <<2908, 2909>>, <<2911, 2915>>, <<2929, 2929>>, <<2946, 2947>>, <<2949, 2954>>,
    <<2958, 2960>>, <<2962, 2965>>, <<2969, 2970>>, <<2972, 2972>>, <<2974, 2975>>,
    <<2979, 2980>>, <<2984, 2986>>, <<2990, 3001>>, <<3006, 3010>>, <<3014, 3016>>,
    <<3018, 3020>>, <<3024, 3024>>, <<3031, 3031>>, <<3072, 3084>>, <<3086, 3088>>,
    <<3090, 3112>>, <<3114, 3129>>, <<3133, 3140>>, <<3142, 3144>>, <<3146, 3148>>,
    <<3157, 3158>>, <<3160, 3162>>, <<3164, 3165>>, <<3168, 3171>>, <<3200, 3203>>,
    <<3205, 3212>>, <<3214, 3216>>, <<3218, 3240>>, <<3242, 3251>>, <<3253, 3257>>,
    <<3261, 3268>>, <<3270, 3272>>, <<3274, 3276>>, <<3285, 3286>>, <<3292, 3294>>,
    <<3296, 3299>>, <<3313, 3315>>, <<3328, 3340>>, <<3342, 3344>>, <<3346, 3386>>,
    <<3389, 3396>>, <<3398, 3400>>, <<3402, 3404>>, <<3406, 3406>>, <<3412, 3415>>,
    <<3423, 3427>>, <<3450, 3455>>, <<3457, 3459>>, <<3461, 3478>>, <<3482, 3505>>,
    <<3507, 3515>>, <<3517, 3517>>, <<3520, 3526>>, <<3535, 3540>>, <<3542, 3542>>,
    <<3544, 3551>>, <<3570, 3571>>, <<3585, 3642>>, <<3648, 3654>>, <<3661, 3661>>,
    <<3713, 3714>>, <<3716, 3716>>, <<3718, 3722>>, <<3724, 3747>>, <<3749, 3749>>,
    <<3751, 3769>>, <<3771, 3773>>, <<3776, 3780>>, <<3782, 3782>>, <<3789, 3789>>,
    <<3804, 3807>>, <<3840, 3840>>, <<3904, 3911>>, <<3913, 3948>>, <<3953, 3971>>,
    <<3976, 3991>>, <<3993, 4028>>, <<4096, 4150>>, <<4152, 4152>>, <<4155, 4159>>,
    <<4176, 4239>>, <<4250, 4253>>, <<4256, 4293>>, <<4295, 4295>>, <<4301, 4301>>,
    <<4304, 4346>>, <<4348, 4680>>, <<4682, 4685>>, <<4688, 4694>>, <<4696, 4696>>,
    <<4698, 4701>>, <<4704, 4744>>, <<4746, 4749>>, <<4752, 4784>>, <<4786, 4789>>,
    <<4792, 4798>>, <<4800, 4800>>, <<4802, 4805>>, <<4808, 4822>>, <<4824, 4880>>,
    <<4882, 4885>>, <<4888, 4954>>, <<4992, 5007>>, <<5024, 5109>>, <<5112, 5117>>,
    <<5121, 5740>>, <<5743, 5759>>, <<5761, 5786>>, <<5792, 5866>>, <<5870, 5880>>,
    <<5888, 5907>>, <<5919, 5939>>, <<5952, 5971>>, <<5984, 5996>>, <<5998, 6000>>,
    <<6002, 6003>>, <<6016, 6067>>, <<6070, 6088>>, <<6103, 6103>>, <<6108, 6108>>,
    <<6176, 6264>>, <<6272, 6314>>, <<6320, 6389>>, <<6400, 6430>>, <<6432, 6443>>,
    <<6448, 6456>>, <<6480, 6509>>, <<6512, 6516>>, <<6528, 6571>>, <<6576, 6601>>,
    <<6656, 6683>>, <<6688, 6750>>, <<6753, 6772>>, <<6823, 6823>>, <<6847, 6848>>,
    <<6860, 6862>>, <<6912, 6963>>, <<6965, 6979>>, <<6981, 6988>>, <<7040, 7081>>,
    <<7084, 7087>>, <<7098, 7141>>, <<7143, 7153>>, <<7168, 7222>>, <<7245, 7247>>,
    <<7258, 7293>>, <<7296, 7306>>, <<7312, 7354>>, <<7357, 7359>>, <<7401, 7404>>,
    <<7406, 7411>>, <<7413, 7414>>, <<7418, 7418>>, <<7424, 7615>>, <<7635, 7668>>,
    <<7680, 7957>>, <<7960, 7965>>, <<7968, 8005>>, <<8008, 8013>>, <<8016, 8023>>,
    <<8025, 8025>>, <<8027, 8027>>, <<8029, 8029>>, <<8031, 8061>>, <<8064, 8116>>,
    <<8118, 8124>>, <<8126, 8126>>, <<8130, 8132>>, <<8134, 8140>>, <<8144, 8147>>,
    <<8150, 8155>>, <<8160, 8172>>, <<8178, 8180>>, <<8182, 8188>>, <<8305, 8305>>,
    <<8319, 8319>>, <<8336, 8348>>, <<8450, 8450>>, <<8455, 8455>>, <<8458, 8467>>,
    <<8469, 8469>>, <<8473, 8477>>, <<8484, 8484>>, <<8486, 8486>>, <<8488, 8488>>,
    <<8490, 8493>>, <<8495, 8505>>, <<8508, 8511>>, <<8517, 8521>>, <<8526, 8526>>,
    <<8544, 8584>>, <<9398, 9449>>, <<11264, 11492>>, <<11499, 11502>>, <<11506, 11507>>,
    <<11520, 11557>>, <<11559, 11559>>, <<11565, 11565>>, <<11568, 11623>>, <<11631, 11631>>,
    <<11648, 11670>>, <<11680, 11686>>, <<11688, 11694>>, <<11696, 11702>>, <<11704, 11710>>,
    <<11712, 11718>>, <<11720, 11726>>, <<11728, 11734>>, <<11736, 11742>>, <<11744, 11775>>,
    <<11823, 11823>>, <<12293, 12295>>, <<12321, 12329>>, <<12337, 12341>>, <<12344, 12348>>,
    <<12353, 12438>>, <<12445, 12447>>, <<12449, 12538>>, <<12540, 12543>>, <<12549, 12591>>,
    <<12593, 12686>>, <<12704, 12735>>, <<12784, 12799>>, <<13312, 19903>>, <<19968, 42124>>,
    <<42192, 42237>>, <<42240, 42508>>, <<42512, 42527>>, <<42538, 42539>>, <<42560, 42606>>,
    <<42612, 42619>>, <<42623, 42735>>, <<42775, 42783>>, <<42786, 42888>>, <<42891, 42972>>,
    <<42993, 43013>>, <<43015, 43047>>, <<43072, 43123>>, <<43136, 43203>>, <<43205, 43205>>,
    <<43250, 43255>>, <<43259, 43259>>, <<43261, 43263>>, <<43274, 43306>>, <<43312, 43346>>,
    <<43360, 43388>>, <<43392, 43442>>, <<43444, 43455>>, <<43471, 43471>>, <<43488, 43503>>,
    <<43514, 43518>>, <<43520, 43574>>, <<43584, 43597>>, <<43616, 43638>>, <<43642, 43710>>,
    <<43712, 43712>>, <<43714, 43714>>, <<43739, 43741>>, <<43744, 43759>>, <<43762, 43765>>,
    <<43777, 43782>>, <<43785, 43790>>, <<43793, 43798>>, <<43808, 43814>>, <<43816, 43822>>,
    <<43824, 43866>>, <<43868, 43881>>, <<43888, 44010>>, <<44032, 55203>>, <<55216, 55238>>,
    <<55243, 55291>>, <<63744, 64109>>, <<64112, 64217>>, <<64256, 64262>>, <<64275, 64279>>,
    <<64285, 64296>>, <<64298, 64310>>, <<64312, 64316>>, <<64318, 64318>>, <<64320, 64321>>,
    <<64323, 64324>>, <<64326, 64433>>, <<64467, 64829>>, <<64848, 64911>>, <<64914, 64967>>,
    <<65008, 65019>>, <<65136, 65140>>, <<65142, 65276>>, <<65313, 65338>>, <<65345, 65370>>,
    <<65382, 65470>>, <<65474, 65479>>, <<65482, 65487>>, <<65490, 65495>>, <<65498, 65500>>,
    <<65536, 65547>>, <<65549, 65574>>, <<65576, 65594>>, <<65596, 65597>>, <<65599, 65613>>,
    <<65616, 65629>>, <<65664, 65786>>, <<65856, 65908>>, <<66176, 66204>>, <<66208, 66256>>,
    <<66304, 66335>>, <<66349, 66378>>, <<66384, 66426>>, <<66432, 66461>>, <<66464, 66499>>,
    <<66504, 66511>>, <<66513, 66517>>, <<66560, 66717>>, <<66736, 66771>>, <<66776, 66811>>,
    <<66816, 66855>>, <<66864, 66915>>, <<66928, 66938>>, <<66940, 66954>>, <<66956, 66962>>,
    <<66964, 66965>>, <<66967, 66977>>, <<66979, 66993>>, <<66995, 67001>>, <<67003, 67004>>,
    <<67008, 67059>>, <<67072, 67382>>, <<67392, 67413>>, <<67424, 67431>>, <<67456, 67461>>,
    <<67463, 67504>>, <<67506, 67514>>, <<67584, 67589>>, <<67592, 67592>>, <<67594, 67637>>,
    <<67639, 67640>>, <<67644, 67644>>, <<67647, 67669>>, <<67680, 67702>>, <<67712, 67742>>,
    <<67808, 67826>>, <<67828, 67829>>, <<67840, 67861>>, <<67872, 67897>>, <<67904, 67929>>,
    <<67968, 68023>>, <<68030, 68031>>, <<68096, 68099>>, <<68101, 68102>>, <<68108, 68115>>,
    <<68117, 68119>>, <<68121, 68149>>, <<68192, 68220>>, <<68224, 68252>>, <<68288, 68295>>,
    <<68297, 68324>>, <<68352, 68405>>, <<68416, 68437>>, <<68448, 68466>>, <<68480, 68497>>,
    <<68608, 68680>>, <<68736, 68786>>, <<68800, 68850>>, <<68864, 68903>>, <<68938, 68965>>,
    <<68969, 68969>>, <<68975, 68997>>, <<69248, 69289>>, <<69291, 69292>>, <<69296, 69297>>,
    <<69314, 69319>>, <<69370, 69372>>, <<69376, 69404>>, <<69415, 69415>>, <<69424, 69445>>,
    <<69488, 69505>>, <<69552, 69572>>, <<69600, 69622>>, <<69632, 69701>>, <<69745, 69749>>,
    <<69760, 69816>>, <<69826, 69826>>, <<69840, 69864>>, <<69888, 69938>>, <<69956, 69959>>,
    <<69968, 70002>>, <<70006, 70006>>, <<70016, 70079>>, <<70081, 70084>>, <<70094, 70095>>,
    <<70106, 70106>>, <<70108, 70108>>, <<70144, 70161>>, <<70163, 70196>>, <<70199, 70199>>,
    <<70206, 70209>>, <<70272, 70278>>, <<70280, 70280>>, <<70282, 70285>>, <<70287, 70301>>,
    <<70303, 70312>>, <<70320, 70376>>, <<70400, 70403>>, <<70405, 70412>>, <<70415, 70416>>,
    <<70419, 70440>>, <<70442, 70448>>, <<70450, 70451>>, <<70453, 70457>>, <<70461, 70468>>,
    <<70471, 70472>>, <<70475, 70476>>, <<70480, 70480>>, <<70487, 70487>>, <<70493, 70499>>,
    <<70528, 70537>>, <<70539, 70539>>, <<70542, 70542>>, <<70544, 70581>>, <<70583, 70592>>,
    <<70594, 70594>>, <<70597, 70597>>, <<70599, 70602>>, <<70604, 70605>>, <<70609, 70609>>,
    <<70611, 70611>>, <<70656, 70721>>, <<70723, 70725>>, <<70727, 70730>>, <<70751, 70753>>,
    <<70784, 70849>>, <<70852, 70853>>, <<70855, 70855>>, <<71040, 71093>>, <<71096, 71102>>,
    <<71128, 71133>>, <<71168, 71230>>, <<71232, 71232>>, <<71236, 71236>>, <<71296, 71349>>,
    <<71352, 71352>>, <<71424, 71450>>, <<71453, 71466>>, <<71488, 71494>>, <<71680, 71736>>,
    <<71840, 71903>>, <<71935, 71942>>, <<71945, 71945>>, <<71948, 71955>>, <<71957, 71958>>,
    <<71960, 71989>>, <<71991, 71992>>, <<71995, 71996>>, <<71999, 72002>>, <<72096, 72103>>,
    <<72106, 72151>>, <<72154, 72159>>, <<72161, 72161>>, <<72163, 72164>>, <<72192, 72242>>,
    <<72245, 72254>>, <<72272, 72343>>, <<72349, 72349>>, <<72368, 72440>>, <<72544, 72551>>,
    <<72640, 72672>>, <<72704, 72712>>, <<72714, 72758>>, <<72760, 72766>>, <<72768, 72768>>,
    <<72818, 72847>>, <<72850, 72871>>, <<72873, 72886>>, <<72960, 72966>>, <<72968, 72969>>,
    <<72971, 73014>>, <<73018, 73018>>, <<73020, 73021>>, <<73023, 73025>>, <<73027, 73027>>,
    <<73030, 73031>>, <<73056, 73061>>, <<73063, 73064>>, <<73066, 73102>>, <<73104, 73105>>,
    <<73107, 73110>>, <<73112, 73112>>, <<73136, 73179>>, <<73440, 73462>>, <<73472, 73488>>,
    <<73490, 73530>>, <<73534, 73536>>, <<73648, 73648>>, <<73728, 74649>>, <<74752, 74862>>,
    <<74880, 75075>>, <<77712, 77808>>, <<77824, 78895>>, <<78913, 78918>>, <<78944, 82938>>,
    <<82944, 83526>>, <<90368, 90414>>, <<92160, 92728>>, <<92736, 92766>>, <<92784, 92862>>,
    <<92880, 92909>>, <<92928, 92975>>, <<92992, 92995>>, <<93027, 93047>>, <<93053, 93071>>,
    <<93504, 93548>>, <<93760, 93823>>, <<93856, 93880>>, <<93883, 93907>>, <<93952, 94026>>,
    <<94031, 94087>>, <<94095, 94111>>, <<94176, 94177>>, <<94179, 94179>>, <<94192, 94198>>,
    <<94208, 101589>>, <<101631, 101662>>, <<101760, 101874>>, <<110576, 110579>>, <<110581, 110587>>,
    <<110589, 110590>>, <<110592, 110882>>, <<110898, 110898>>, <<110928, 110930>>, <<110933, 110933>>,
    <<110948, 110951>>, <<110960, 111355>>, <<113664, 113770>>, <<113776, 113788>>, <<113792, 113800>>,
    <<113808, 113817>>, <<113822, 113822>>, <<119808, 119892>>, <<119894, 119964>>, <<119966, 119967>>,
    <<119970, 119970>>, <<119973, 119974>>, <<119977, 119980>>, <<119982, 119993>>, <<119995, 119995>>,
    <<119997, 120003>>, <<120005, 120069>>, <<120071, 120074>>, <<120077, 120084>>, <<120086, 120092>>,
    <<120094, 120121>>, <<120123, 120126>>, <<120128, 120132>>, <<120134, 120134>>, <<120138, 120144>>,
    <<120146, 120485>>, <<120488, 120512>>, <<120514, 120538>>, <<120540, 120570>>, <<120572, 120596>>,
    <<120598, 120628>>, <<120630, 120654>>, <<120656, 120686>>, <<120688, 120712>>, <<120714, 120744>>,
    <<120746, 120770>>, <<120772, 120779>>, <<122624, 122654>>, <<122661, 122666>>, <<122880, 122886>>,
    <<122888, 122904>>, <<122907, 122913>>, <<122915, 122916>>, <<122918, 122922>>, <<122928, 122989>>,
    <<123023, 123023>>, <<123136, 123180>>, <<123191, 123197>>, <<123214, 123214>>, <<123536, 123565>>,
    <<123584, 123627>>, <<124112, 124139>>, <<124368, 124397>>, <<124400, 124400>>, <<124608, 124638>>,
    <<124640, 124661>>, <<124670, 124671>>, <<124896, 124902>>, <<124904, 124907>>, <<124909, 124910>>,
    <<124912, 124926>>, <<124928, 125124>>, <<125184, 125251>>, <<125255, 125255>>, <<125259, 125259>>,
    <<126464, 126467>>, <<126469, 126495>>, <<126497, 126498>>, <<126500, 126500>>, <<126503, 126503>>,
    <<126505, 126514>>, <<126516, 126519>>, <<126521, 126521>>, <<126523, 126523>>, <<126530, 126530>>,
    <<126535, 126535>>, <<126537, 126537>>, <<126539, 126539>>, <<126541, 126543>>, <<126545, 126546>>,
    <<126548, 126548>>, <<126551, 126551>>, <<126553, 126553>>, <<126555, 126555>>, <<126557, 126557>>,
    <<126559, 126559>>, <<126561, 126562>>, <<126564, 126564>>, <<126567, 126570>>, <<126572, 126578>>,
    <<126580, 126583>>, <<126585, 126588>>, <<126590, 126590>>, <<126592, 126601>>, <<126603, 126619>>,
    <<126625, 126627>>, <<126629, 126633>>, <<126635, 126651>>, <<127280, 127305>>, <<127312, 127337>>,
    <<127344, 127369>>, <<131072, 173791>>, <<173824, 178205>>, <<178208, 183981>>, <<183984, 191456>>,
    <<191472, 192093>>, <<194560, 195101>>, <<196608, 201546>>, <<201552, 210041>>>>

\* The Unicode general categories Nd, Nl and No above ASCII (Unicode 17.0).
NumericRanges ==
  <<<<178, 179>>, <<185, 185>>, <<188, 190>>, <<1632, 1641>>, <<1776, 1785>>,
    <<1984, 1993>>, <<2406, 2415>>, <<2534, 2543>>, <<2548, 2553>>, <<2662, 2671>>,
    <<2790, 2799>>, <<2918, 2927>>, <<2930, 2935>>, <<3046, 3058>>, <<3174, 3183>>,
    <<3192, 3198>>, <<3302, 3311>>, <<3416, 3422>>, <<3430, 3448>>, <<3558, 3567>>,
    <<3664, 3673>>, <<3792, 3801>>, <<3872, 3891>>, <<4160, 4169>>, <<4240, 4249>>,
    <<4969, 4988>>, <<5870, 5872>>, <<6112, 6121>>, <<6128, 6137>>, <<6160, 6169>>,
    <<6470, 6479>>, <<6608, 6618>>, <<6784, 6793>>, <<6800, 6809>>, <<6992, 7001>>,
    <<7088, 7097>>, <<7232, 7241>>, <<7248, 7257>>, <<8304, 8304>>, <<8308, 8313>>,
    <<8320, 8329>>, <<8528, 8578>>, <<8581, 8585>>, <<9312, 9371>>, <<9450, 9471>>,
    <<10102, 10131>>, <<11517, 11517>>, <<12295, 12295>>, <<12321, 12329>>, <<12344, 12346>>,
    <<12690, 12693>>, <<12832, 12841>>, <<12872, 12879>>, <<12881, 12895>>, <<12928, 12937>>,
    <<12977, 12991>>, <<42528, 42537>>, <<42726, 42735>>, <<43056, 43061>>, <<43216, 43225>>,
    <<43264, 43273>>, <<43472, 43481>>, <<43504, 43513>>, <<43600, 43609>>, <<44016, 44025>>,
    <<65296, 65305>>, <<65799, 65843>>, <<65856, 65912>>, <<65930, 65931>>, <<66273, 66299>>,
    <<66336, 66339>>, <<66369, 66369>>, <<66378, 66378>>, <<66513, 66517>>, <<66720, 66729>>,
    <<67672, 67679>>, <<67705, 67711>>, <<67751, 67759>>, <<67835, 67839>>, <<67862, 67867>>,
    <<68028, 68029>>, <<68032, 68047>>, <<68050, 68095>>, <<68160, 68168>>, <<68221, 68222>>,
    <<68253, 68255>>, <<68331, 68335>>, <<68440, 68447>>, <<68472, 68479>>, <<68521, 68527>>,
    <<68858, 68863>>, <<68912, 68921>>, <<68928, 68937>>, <<69216, 69246>>, <<69405, 69414>>,
    <<69457, 69460>>, <<69573, 69579>>, <<69714, 69743>>, <<69872, 69881>>, <<69942, 69951>>,
    <<70096, 70105>>, <<70113, 70132>>, <<70384, 70393>>, <<70736, 70745>>, <<70864, 70873>>,
    <<71248, 71257>>, <<71360, 71369>>, <<71376, 71395>>, <<71472, 71483>>, <<71904, 71922>>,
    <<72016, 72025>>, <<72688, 72697>>, <<72784, 72812>>, <<73040, 73049>>, <<73120, 73129>>,
    <<73184, 73193>>, <<73552, 73561>>, <<73664, 73684>>, <<74752, 74862>>, <<90416, 90425>>,
    <<92768, 92777>>, <<92864, 92873>>, <<93008, 93017>>, <<93019, 93025>>, <<93552, 93561>>,
    <<93824, 93846>>, <<94196, 94198>>, <<118000, 118009>>, <<119488, 119507>>, <<119520, 119539>>,
    <<119648, 119672>>, <<120782, 120831>>, <<123200, 123209>>, <<123632, 123641>>, <<124144, 124153>>,
    <<124401, 124410>>, <<125127, 125135>>, <<125264, 125273>>, <<126065, 126123>>, <<126125, 126127>>,
    <<126129, 126132>>, <<126209, 126253>>, <<126255, 126269>>, <<127232, 127244>>, <<130032, 130041>>>>

\* char::is_alphabetic
is_alphabetic(c) ==
  IF c < 128
  THEN (65 <= c /\ c <= 90) \/ (97 <= c /\ c <= 122)
  ELSE lookup(AlphabeticRanges, c) # 0

\* char::is_numeric
is_numeric(c) ==
  IF c < 128 THEN 48 <= c /\ c <= 57 ELSE lookup(NumericRanges, c) # 0

\* char::is_alphanumeric
is_alphanumeric(c) == is_alphabetic(c) \/ is_numeric(c)

\* char::is_whitespace: the Unicode property White_Space.
is_whitespace(c) ==
  \/ 9 <= c /\ c <= 13
  \/ c \in {32, 133, 160, 5760, 8232, 8233, 8239, 8287, 12288}
  \/ 8192 <= c /\ c <= 8202

\* The upper-case mappings of one char to one char above ASCII (Unicode 17.0):
\* <<first, last, step, d>> maps first, first + step, ..., last each to itself
\* plus d.
UppercaseRuns ==
  <<<<181, 181, 1, 743>>, <<224, 246, 1, -32>>, <<248, 254, 1, -32>>,
    <<255, 255, 1, 121>>, <<257, 303, 2, -1>>, <<305, 305, 1, -232>>,
    <<307, 311, 2, -1>>, <<314, 328, 2, -1>>, <<331, 375, 2, -1>>,
    <<378, 382, 2, -1>>, <<383, 383, 1, -300>>, <<384, 384, 1, 195>>,
    <<387, 389, 2, -1>>, <<392, 392, 1, -1>>, <<396, 396, 1, -1>>,
    <<402, 402, 1, -1>>, <<405, 405, 1, 97>>, <<409, 409, 1, -1>>,
    <<410, 410, 1, 163>>, <<411, 411, 1, 42561>>, <<414, 414, 1, 130>>,
    <<417, 421, 2, -1>>, <<424, 424, 1, -1>>, <<429, 429, 1, -1>>,
    <<432, 432, 1, -1>>, <<436, 438, 2, -1>>, <<441, 441, 1, -1>>,
    <<445, 445, 1, -1>>, <<447, 447, 1, 56>>, <<453, 453, 1, -1>>,
    <<454, 454, 1, -2>>, <<456, 456, 1, -1>>, <<457, 457, 1, -2>>,
    <<459, 459, 1, -1>>, <<460, 460, 1, -2>>, <<462, 476, 2, -1>>,
    <<477, 477, 1, -79>>, <<479, 495, 2, -1>>, <<498, 498, 1, -1>>,
    <<499, 499, 1, -2>>, <<501, 501, 1, -1>>, <<505, 543, 2, -1>>,
    <<547, 563, 2, -1>>, <<572, 572, 1, -1>>, <<575, 576, 1, 10815>>,
    <<578, 578, 1, -1>>, <<583, 591, 2, -1>>, <<592, 592, 1, 10783>>,
    <<593, 593, 1, 10780>>, <<594, 594, 1, 10782>>, <<595, 595, 1, -210>>,
    <<596, 596, 1, -206>>, <<598, 599, 1, -205>>, <<601, 601, 1, -202>>,
    <<603, 603, 1, -203>>, <<604, 604, 1, 42319>>, <<608, 608, 1, -205>>,
    <<609, 609, 1, 42315>>, <<611, 611, 1, -207>>, <<612, 612, 1, 42343>>,
    <<613, 613, 1, 42280>>, <<614, 614, 1, 42308>>, <<616, 616, 1, -209>>,
    <<617, 617, 1, -211>>, <<618, 618, 1, 42308>>, <<619, 619, 1, 10743>>,
    <<620, 620, 1, 42305>>, <<623, 623, 1, -211>>, <<625, 625, 1, 10749>>,
    <<626, 626, 1, -213>>, <<629, 629, 1, -214>>, <<637, 637, 1, 10727>>,
    <<640, 640, 1, -218>>, <<642, 642, 1, 42307>>, <<643, 643, 1, -218>>,
    <<647, 647, 1, 42282>>, <<648, 648, 1, -218>>, <<649, 649, 1, -69>>,
    <<650, 651, 1, -217>>, <<652, 652, 1, -71>>, <<658, 658, 1, -219>>,
    <<669, 669, 1, 42261>>, <<670, 670, 1, 42258>>, <<837, 837, 1, 84>>,
    <<881, 883, 2, -1>>, <<887, 887, 1, -1>>, <<891, 893, 1, 130>>,
    <<940, 940, 1, -38>>, <<941, 943, 1, -37>>, <<945, 961, 1, -32>>,
    <<962, 962, 1, -31>>, <<963, 971, 1, -32>>, <<972, 972, 1, -64>>,
    <<973, 974, 1, -63>>, <<976, 976, 1, -62>>, <<977, 977, 1, -57>>,
    <<981, 981, 1, -47>>, <<982, 982, 1, -54>>, <<983, 983, 1, -8>>,
    <<985, 1007, 2, -1>>, <<1008, 1008, 1, -86>>, <<1009, 1009, 1, -80>>,
    <<1010, 1010, 1, 7>>, <<1011, 1011, 1, -116>>, <<1013, 1013, 1, -96>>,
    <<1016, 1016, 1, -1>>, <<1019, 1019, 1, -1>>, <<1072, 1103, 1, -32>>,
    <<1104, 1119, 1, -80>>, <<1121, 1153, 2, -1>>, <<1163, 1215, 2, -1>>,
    <<1218, 1230, 2, -1>>, <<1231, 1231, 1, -15>>, <<1233, 1327, 2, -1>>,
    <<1377, 1414, 1, -48>>, <<4304, 4346, 1, 3008>>, <<4349, 4351, 1, 3008>>,
    <<5112, 5117, 1, -8>>, <<7296, 7296, 1, -6254>>, <<7297, 7297, 1, -6253>>,
    <<7298, 7298, 1, -6244>>, <<7299, 7300, 1, -6242>>, <<7301, 7301, 1, -6243>>,
    <<7302, 7302, 1, -6236>>, <<7303, 7303, 1, -6181>>, <<7304, 7304, 1, 35266>>,
    <<7306, 7306, 1, -1>>, <<7545, 7545, 1, 35332>>, <<7549, 7549, 1, 3814>>,
    <<7566, 7566, 1, 35384>>, <<7681, 7829, 2, -1>>, <<7835, 7835, 1, -59>>,
    <<7841, 7935, 2, -1>>, <<7936, 7943, 1, 8>>, <<7952, 7957, 1, 8>>,
    <<7968, 7975, 1, 8>>, <<7984, 7991, 1, 8>>, <<8000, 8005, 1, 8>>,
    <<8017, 8023, 2, 8>>, <<8032, 8039, 1, 8>>, <<8048, 8049, 1, 74>>,
    <<8050, 8053, 1, 86>>, <<8054, 8055, 1, 100>>, <<8056, 8057, 1, 128>>,
    <<8058, 8059, 1, 112>>, <<8060, 8061, 1, 126>>, <<8112, 8113, 1, 8>>,
    <<8126, 8126, 1, -7205>>, <<8144, 8145, 1, 8>>, <<8160, 8161, 1, 8>>,
    <<8165, 8165, 1, 7>>, <<8526, 8526, 1, -28>>, <<8560, 8575, 1, -16>>,
    <<8580, 8580, 1, -1>>, <<9424, 9449, 1, -26>>, <<11312, 11359, 1, -48>>,
    <<11361, 11361, 1, -1>>, <<11365, 11365, 1, -10795>>, <<11366, 11366, 1, -10792>>,
    <<11368, 11372, 2, -1>>, <<11379, 11379, 1, -1>>, <<11382, 11382, 1, -1>>,
    <<11393, 11491, 2, -1>>, <<11500, 11502, 2, -1>>, <<11507, 11507, 1, -1>>,
    <<11520, 11557, 1, -7264>>, <<11559, 11559, 1, -7264>>, <<11565, 11565, 1, -7264>>,
    <<42561, 42605, 2, -1>>, <<42625, 42651, 2, -1>>, <<42787, 42799, 2, -1>>,
    <<42803, 42863, 2, -1>>, <<42874, 42876, 2, -1>>, <<42879, 42887, 2, -1>>,
    <<42892, 42892, 1, -1>>, <<42897, 42899, 2, -1>>, <<42900, 42900, 1, 48>>,
    <<42903, 42921, 2, -1>>, <<42933, 42947, 2, -1>>, <<42952, 42954, 2, -1>>,
    <<42957, 42971, 2, -1>>, <<42998, 42998, 1, -1>>, <<43859, 43859, 1, -928>>,
    <<43888, 43967, 1, -38864>>, <<65345, 65370, 1, -32>>, <<66600, 66639, 1, -40>>,
    <<66776, 66811, 1, -40>>, <<66967, 66977, 1, -39>>, <<66979, 66993, 1, -39>>,
    <<66995, 67001, 1, -39>>, <<67003, 67004, 1, -39>>, <<68800, 68850, 1, -64>>,
    <<68976, 68997, 1, -32>>, <<71872, 71903, 1, -32>>, <<93792, 93823, 1, -32>>,
    <<93883, 93907, 1, -27>>, <<125218, 125251, 1, -34>>>>

\* The upper-case mappings of one char to two or three chars (SpecialCasing):
\* <<c, c, upper case of c>>.
UppercaseSpecial ==
  <<<<223, 223, <<83, 83>>>>, <<329, 329, <<700, 78>>>>, <<496, 496, <<74, 780>>>>,
    <<912, 912, <<921, 776, 769>>>>, <<944, 944, <<933, 776, 769>>>>, <<1415, 1415, <<1333, 1362>>>>,
    <<7830, 7830, <<72, 817>>>>, <<7831, 7831, <<84, 776>>>>, <<7832, 7832, <<87, 778>>>>,
    <<7833, 7833, <<89, 778>>>>, <<7834, 7834, <<65, 702>>>>, <<8016, 8016, <<933, 787>>>>,
    <<8018, 8018, <<933, 787, 768>>>>, <<8020, 8020, <<933, 787, 769>>>>, <<8022, 8022, <<933, 787, 834>>>>,
    <<8064, 8064, <<7944, 921>>>>, <<8065, 8065, <<7945, 921>>>>, <<8066, 8066, <<7946, 921>>>>,
    <<8067, 8067, <<7947, 921>>>>, <<8068, 8068, <<7948, 921>>>>, <<8069, 8069, <<7949, 921>>>>,
    <<8070, 8070, <<7950, 921>>>>, <<8071, 8071, <<7951, 921>>>>, <<8072, 8072, <<7944, 921>>>>,
    <<8073, 8073, <<7945, 921>>>>, <<8074, 8074, <<7946, 921>>>>, <<8075, 8075, <<7947, 921>>>>,
    <<8076, 8076, <<7948, 921>>>>, <<8077, 8077, <<7949, 921>>>>, <<8078, 8078, <<7950, 921>>>>,
    <<8079, 8079, <<7951, 921>>>>, <<8080, 8080, <<7976, 921>>>>, <<8081, 8081, <<7977, 921>>>>,
    <<8082, 8082, <<7978, 921>>>>, <<8083, 8083, <<7979, 921>>>>, <<8084, 8084, <<7980, 921>>>>,
    <<8085, 8085, <<7981, 921>>>>, <<8086, 8086, <<7982, 921>>>>, <<8087, 8087, <<7983, 921>>>>,
    <<8088, 8088, <<7976, 921>>>>, <<8089, 8089, <<7977, 921>>>>, <<8090, 8090, <<7978, 921>>>>,
    <<8091, 8091, <<7979, 921>>>>, <<8092, 8092, <<7980, 921>>>>, <<8093, 8093, <<7981, 921>>>>,
    <<8094, 8094, <<7982, 921>>>>, <<8095, 8095, <<7983, 921>>>>, <<8096, 8096, <<8040, 921>>>>,
    <<8097, 8097, <<8041, 921>>>>, <<8098, 8098, <<8042, 921>>>>, <<8099, 8099, <<8043, 921>>>>,
    <<8100, 8100, <<8044, 921>>>>, <<8101, 8101, <<8045, 921>>>>, <<8102, 8102, <<8046, 921>>>>,
    <<8103, 8103, <<8047, 921>>>>, <<8104, 8104, <<8040, 921>>>>, <<8105, 8105, <<8041, 921>>>>,
    <<8106, 8106, <<8042, 921>>>>, <<8107, 8107, <<8043, 921>>>>, <<8108, 8108, <<8044, 921>>>>,
    <<8109, 8109, <<8045, 921>>>>, <<8110, 8110, <<8046, 921>>>>, <<8111, 8111, <<8047, 921>>>>,
    <<8114, 8114, <<8122, 921>>>>, <<8115, 8115, <<913, 921>>>>, <<8116, 8116, <<902, 921>>>>,
    <<8118, 8118, <<913, 834>>>>, <<8119, 8119, <<913, 834, 921>>>>, <<8124, 8124, <<913, 921>>>>,
    <<8130, 8130, <<8138, 921>>>>, <<8131, 8131, <<919, 921>>>>, <<8132, 8132, <<905, 921>>>>,
    <<8134, 8134, <<919, 834>>>>, <<8135, 8135, <<919, 834, 921>>>>, <<8140, 8140, <<919, 921>>>>,
    <<8146, 8146, <<921, 776, 768>>>>, <<8147, 8147, <<921, 776, 769>>>>, <<8150, 8150, <<921, 834>>>>,
    <<8151, 8151, <<921, 776, 834>>>>, <<8162, 8162, <<933, 776, 768>>>>, <<8163, 8163, <<933, 776, 769>>>>,
    <<8164, 8164, <<929, 787>>>>, <<8166, 8166, <<933, 834>>>>, <<8167, 8167, <<933, 776, 834>>>>,
    <<8178, 8178, <<8186, 921>>>>, <<8179, 8179, <<937, 921>>>>, <<8180, 8180, <<911, 921>>>>,
    <<8182, 8182, <<937, 834>>>>, <<8183, 8183, <<937, 834, 921>>>>, <<8188, 8188, <<937, 921>>>>,
    <<64256, 64256, <<70, 70>>>>, <<64257, 64257, <<70, 73>>>>, <<64258, 64258, <<70, 76>>>>,
    <<64259, 64259, <<70, 70, 73>>>>, <<64260, 64260, <<70, 70, 76>>>>, <<64261, 64261, <<83, 84>>>>,
    <<64262, 64262, <<83, 84>>>>, <<64275, 64275, <<1348, 1350>>>>, <<64276, 64276, <<1348, 1333>>>>,
    <<64277, 64277, <<1348, 1339>>>>, <<64278, 64278, <<1358, 1350>>>>, <<64279, 64279, <<1348, 1341>>>>>>

\* char::to_uppercase: the upper case of a char is a string.
char_to_uppercase(c) ==
  IF c < 128
  THEN IF 97 <= c /\ c <= 122 THEN <<c - 32>> ELSE <<c>>
  ELSE LET s == lookup(UppercaseSpecial, c)
           r == lookup(UppercaseRuns, c)
       IN IF s # 0 THEN UppercaseSpecial[s][3]
          ELSE IF r # 0 /\ (c - UppercaseRuns[r][1]) % UppercaseRuns[r][3] = 0
          THEN <<c + UppercaseRuns[r][4]>>
          ELSE <<c>>

RECURSIVE upper_from(_, _)
upper_from(s, i) ==
  IF i > Len(s) THEN <<>> ELSE char_to_uppercase(s[i]) \o upper_from(s, i + 1)

\* str::to_uppercase
to_uppercase(s) == upper_from(s, 1)

\* The characters the checked source strings are drawn from.
SourceChars == {ord(c) : c \in {"I", "N", "n", "1", "_", " ", "\n", "#", ",", "(", "$"}}

\* Characters outside ASCII for further source strings: U+00E9 (a letter with
\* an upper case), U+00DF (the sharp s, upper case "SS"), U+0131 (dotless i,
\* upper case "I"), U+017F (long s, upper case "S"), U+03B1 (alpha), U+2080 (a
\* subscript digit), U+1680 (a space), with an ASCII letter, a line break
\* and an illegal character.
WideChars == {233, 223, 305, 383, 945, 8320, 5760, ord("n"), ord("\n"), ord("$")}

(***************************************************************************)
(* TokenKind.                                                              *)
(***************************************************************************)
Tok(k) == [kind |-> k, name |-> <<>>]

Identifier(s) == [kind |-> "Identifier", name |-> s]

Inputs == Tok("Inputs")
Outputs == Tok("Outputs")
In == Tok("In")
Out == Tok("Out")
Comma == Tok("Comma")
ParenOpen == Tok("ParenOpen")
ParenClose == Tok("ParenClose")
Newline == Tok("Newline")
EOF == Tok("EOF")
And == Tok("And")
Or == Tok("Or")
Not == Tok("Not")
Nand == Tok("Nand")
Nor == Tok("Nor")
Xor == Tok("Xor")
Xnor == Tok("Xnor")
Subcircuit == Tok("Subcircuit")
End == Tok("End")

\* Result<T, E>
Ok(v) == [tag |-> "Ok", value |-> v]
Err(e) == [tag |-> "Err", value |-> e]

(***************************************************************************)
(* Lexer.                                                                  *)
(***************************************************************************)
Location(l, c) == [line |-> l, column |-> c]

UnexpectedCharacter(c, loc) ==
  [kind |-> "UnexpectedCharacter", char |-> c, location |-> loc]

InvalidIdentifier(s, loc) ==
  [kind |-> "InvalidIdentifier", text |-> s, location |-> loc]

\* source.chars().nth(i)
nth(source, i) == IF i < Len(source) THEN source[i + 1] ELSE None

\* Variant: lines and columns are counted from 0.
NewLexer_zero_based(source) ==
  [source |-> source, position |-> 0, line |-> 0, column |-> 0,
   current_char |-> nth(source, 0)]

NewLexer(source) ==
  [source |-> source, position |-> 0, line |-> 1, column |-> 1,
   current_char |-> nth(source, 0)]

get_location(lx) == Location(lx.line, lx.column)

\* Variant: the column keeps counting across a line break.
advance_no_column_reset(lx) ==
  [lx EXCEPT
     !.line = IF lx.current_char = LineFeed THEN lx.line + 1 ELSE lx.line,
     !.column = IF lx.current_char = None THEN lx.column ELSE lx.column + 1,
     !.position = lx.position + 1,
     !.current_char = nth(lx.source, lx.position + 1)]

advance(lx) ==
  [lx EXCEPT
     !.line = IF lx.current_char = LineFeed THEN lx.line + 1 ELSE lx.line,
     !.column = IF lx.current_char = None THEN lx.column
                ELSE IF lx.current_char = LineFeed THEN 1
                ELSE lx.column + 1,
     !.position = lx.position + 1,
     !.current_char = nth(lx.source, lx.position + 1)]

\* Variant: an if in place of the while, so one whitespace character is skipped.
skip_whitespace_once(lx) ==
  IF lx.current_char = None THEN lx
  ELSE IF lx.current_char = LineFeed THEN lx
  ELSE IF is_whitespace(lx.current_char) THEN advance(lx)
  ELSE lx

RECURSIVE skip_whitespace(_)
skip_whitespace(lx) ==
  IF lx.current_char = None THEN lx
  ELSE IF lx.current_char = LineFeed THEN lx
  ELSE IF is_whitespace(lx.current_char) THEN skip_whitespace(advance(lx))
  ELSE lx

\* Variant: the comment ends before its line break, which is left in the input.
RECURSIVE skip_line_comment_keep_newline(_)
skip_line_comment_keep_newline(lx) ==
  IF lx.current_char = None THEN lx
  ELSE IF lx.current_char = LineFeed THEN lx
  ELSE skip_line_comment_keep_newline(advance(lx))

RECURSIVE skip_line_comment(_)
skip_line_comment(lx) ==
  IF lx.current_char = None THEN lx
  ELSE IF lx.current_char = LineFeed THEN advance(lx)
  ELSE skip_line_comment(advance(lx))

\* The while loop of Lexer::identifier: <<lexer after the run, id_str>>.
RECURSIVE identifier_run(_, _)
identifier_run(lx, id_str) ==
  IF lx.current_char # None
     /\ (is_alphanumeric(lx.current_char) \/ lx.current_char = Underscore)
  THEN identifier_run(advance(lx), Append(id_str, lx.current_char))
  ELSE <<lx, id_str>>

\* The texts of the match arms of Lexer::identifier.
KeywordText ==
  [Inputs |-> str(<<"I", "N", "P", "U", "T", "S">>),
   Outputs |-> str(<<"O", "U", "T", "P", "U", "T", "S">>),
   In |-> str(<<"I", "N">>),
   Out |-> str(<<"O", "U", "T">>),
   And |-> str(<<"A", "N", "D">>),
   Or |-> str(<<"O", "R">>),
   Not |-> str(<<"N", "O", "T">>),
   Nand |-> str(<<"N", "A", "N", "D">>),
   Nor |-> str(<<"N", "O", "R">>),
   Xor |-> str(<<"X", "O", "R">>),
   Xnor |-> str(<<"X", "N", "O", "R">>),
   Subcircuit |-> str(<<"S", "U", "B", "C", "I", "R", "C", "U", "I", "T">>),
   End |-> str(<<"E", "N", "D">>)]

keyword(up, id_str) ==
  CASE up = KeywordText.Inputs -> Inputs
    [] up = KeywordText.Outputs -> Outputs
    [] up = KeywordText.In -> In
    [] up = KeywordText.Out -> Out
    [] up = KeywordText.And -> And
    [] up = KeywordText.Or -> Or
    [] up = KeywordText.Not -> Not
    [] up = KeywordText.Nand -> Nand
    [] up = KeywordText.Nor -> Nor
    [] up = KeywordText.Xor -> Xor
    [] up = KeywordText.Xnor -> Xnor
    [] up = KeywordText.Subcircuit -> Subcircuit
    [] up = KeywordText.End -> End
    [] OTHER -> Identifier(id_str)

\* Lexer::identifier: [lexer, result].
identifier(lx) ==
  LET location == get_location(lx)
      run == identifier_run(lx, <<>>)
      id_str == run[2]
  IN IF id_str = <<>>
     THEN [lexer |-> run[1], result |-> Err(InvalidIdentifier(id_str, location))]
     ELSE [lexer |-> run[1], result |-> Ok(keyword(to_uppercase(id_str), id_str))]

\* Variant: the cursor is advanced before EOF is returned.
at_end_advancing(lx) == [lexer |-> advance(lx), result |-> Ok(EOF)]

\* The end-of-input return of Lexer::get_next_token.
at_end(lx) == [lexer |-> lx, result |-> Ok(EOF)]

\* Variant: the offending character is consumed when the error is returned.
RECURSIVE get_next_token_consuming(_)
get_next_token_consuming(lx0) ==
  LET lx == skip_whitespace(lx0)
      location == get_location(lx)
      c == lx.current_char
  IN IF c = None THEN at_end(lx)
     ELSE IF is_alphabetic(c) THEN identifier(lx)
     ELSE IF c = Hash THEN get_next_token_consuming(skip_line_comment(lx))
     ELSE IF c = CharComma THEN [lexer |-> advance(lx), result |-> Ok(Comma)]
     ELSE IF c = CharParenOpen THEN [lexer |-> advance(lx), result |-> Ok(ParenOpen)]
     ELSE IF c = CharParenClose THEN [lexer |-> advance(lx), result |-> Ok(ParenClose)]
     ELSE IF c = LineFeed THEN [lexer |-> advance(lx), result |-> Ok(Newline)]
     ELSE [lexer |-> advance(lx), result |-> Err(UnexpectedCharacter(c, location))]

\* Lexer::get_next_token: [lexer, result].
RECURSIVE get_next_token(_)
get_next_token(lx0) ==
  LET lx == skip_whitespace(lx0)
      location == get_location(lx)
      c == lx.current_char
  IN IF c = None THEN at_end(lx)
     ELSE IF is_alphabetic(c) THEN identifier(lx)
     ELSE IF c = Hash THEN get_next_token(skip_line_comment(lx))
     ELSE IF c = CharComma THEN [lexer |-> advance(lx), result |-> Ok(Comma)]
     ELSE IF c = CharParenOpen THEN [lexer |-> advance(lx), result |-> Ok(ParenOpen)]
     ELSE IF c = CharParenClose THEN [lexer |-> advance(lx), result |-> Ok(ParenClose)]
     ELSE IF c = LineFeed THEN [lexer |-> advance(lx), result |-> Ok(Newline)]
     ELSE [lexer |-> lx, result |-> Err(UnexpectedCharacter(c, location))]

(***************************************************************************)
(* The lexer as a state machine: a caller holds one Lexer and calls        *)
(* get_next_token repeatedly.  last is the value of the latest call,       *)
(* calls the number of calls made, and emitted the tokens returned up to   *)
(* and including the first EOF (nothing is added after EOF or an error).   *)
(* A caller may also call the public Lexer::identifier itself; direct is   *)
(* the number of such calls made.  The calls are made while no parse is    *)
(* running (pc = "idle").                                                  *)
(***************************************************************************)
NoResult == [tag |-> "None", value |-> <<>>]

\* The 13 keywords, in lower case, with their tokens.
Keywords ==
  {<<str(<<"i", "n", "p", "u", "t", "s">>), Inputs>>,
   <<str(<<"o", "u", "t", "p", "u", "t", "s">>), Outputs>>,
   <<str(<<"i", "n">>), In>>,
   <<str(<<"o", "u", "t">>), Out>>,
   <<str(<<"a", "n", "d">>), And>>,
   <<str(<<"o", "r">>), Or>>,
   <<str(<<"n", "o", "t">>), Not>>,
   <<str(<<"n", "a", "n", "d">>), Nand>>,
   <<str(<<"n", "o", "r">>), Nor>>,
   <<str(<<"x", "o", "r">>), Xor>>,
   <<str(<<"x", "n", "o", "r">>), Xnor>>,
   <<str(<<"s", "u", "b", "c", "i", "r", "c", "u", "i", "t">>), Subcircuit>>,
   <<str(<<"e", "n", "d">>), End>>}

\* The Unicode case folding of a char, for the chars that fold to an ASCII
\* letter: the ASCII upper-case letters, U+017F (long s, to "s") and U+212A
\* (Kelvin sign, to "k").  A char that is left as it is here folds to no ASCII
\* letter, or to two or three chars ("ss", "st", "ff", "fi", "fl", "ffi",
\* "ffl" when they are ASCII) that are part of no keyword.
case_fold(c) ==
  IF 65 <= c /\ c <= 90 THEN c + 32
  ELSE IF c = 383 THEN ord("s")
  ELSE IF c = 8490 THEN ord("k")
  ELSE c

LowerCase(word) == [i \in DOMAIN word |-> case_fold(word[i])]

UpperCase(word) ==
  [i \in DOMAIN word |-> IF 97 <= word[i] /\ word[i] <= 122 THEN word[i] - 32 ELSE word[i]]

Capitalised(word) == [i \in DOMAIN word |-> IF i = 1 THEN UpperCase(word)[i] ELSE word[i]]

\* Sources that spell each keyword in lower case, upper case and capitalised,
\* alone and followed by further word characters or by another token.
KeywordSources ==
  {w \o suffix :
     w \in UNION {{kw[1], UpperCase(kw[1]), Capitalised(kw[1])} : kw \in Keywords},
     suffix \in {<<>>, str(<<"X">>), str(<<"_", "1">>), str(<<"G", "a", "t", "e">>), str(<<" ", "x">>), str(<<"(">>)}}

Sources == UNION {[1..n -> SourceChars] : n \in 0..MaxSrcLen}

\* Sources with characters outside ASCII, and words that a keyword is part
\* of: "and" + U+00E9, U+00C9 + "nd", "xor" + U+00B2, "in" + U+000B + ",",
\* "in" + U+00A0 + "x", "stra" + U+00DF + "e", "IN" + U+00DF, "x" + U+00FF,
\* U+00B5, and the words that upper-case to a keyword: U+0131 + "nputs",
\* "input" + U+017F, U+017F + "ubc" + U+0131 + "rcu" + U+0131 + "t"; and the
\* letters U+1C8A and U+019B, whose upper cases are U+1C89 and U+A7DC.
WideSources ==
  UNION {[1..n -> WideChars] : n \in 0..MaxWideLen}
    \cup {str(<<"a", "n", "d">>) \o <<233>>, <<201>> \o str(<<"n", "d">>),
          str(<<"x", "o", "r">>) \o <<178>>,
          str(<<"i", "n">>) \o <<11>> \o str(<<",">>),
          str(<<"i", "n">>) \o <<160>> \o str(<<"x">>),
          str(<<"s", "t", "r", "a">>) \o <<223>> \o str(<<"e">>),
          str(<<"I", "N">>) \o <<223>>, str(<<"x">>) \o <<255>>, <<181>>,
          <<305>> \o str(<<"n", "p", "u", "t", "s">>),
          str(<<"i", "n", "p", "u", "t">>) \o <<383>>,
          <<383>> \o str(<<"u", "b", "c">>) \o <<305>> \o str(<<"r", "c", "u">>)
            \o <<305>> \o str(<<"t">>),
          <<7306>>, str(<<"x">>) \o <<7306>>, <<411, 110>>}

Finished == last.tag = "Err" \/ last = Ok(EOF)

CollectionDone == \E i \in DOMAIN emitted : emitted[i] = EOF

GetNextToken ==
  /\ pc = "idle"
  /\ calls < Len(lexer.source) + 1 + MaxExtraCalls
  /\ LET r == get_next_token(lexer)
     IN /\ lexer' = r.lexer
        /\ last' = r.result
        /\ emitted' = IF r.result.tag = "Ok" /\ last.tag # "Err" /\ ~CollectionDone
                      THEN Append(emitted, r.result.value)
                      ELSE emitted
  /\ calls' = calls + 1
  /\ direct' = direct
  /\ UNCHANGED parvars

\* A caller calls Lexer::identifier directly, at the cursor as it stands (on
\* the sources of at most MaxDirectLen characters, at most MaxDirectCalls times).
CallIdentifier ==
  /\ pc = "idle"
  /\ calls < Len(lexer.source) + 1 + MaxExtraCalls
  /\ direct < MaxDirectCalls
  /\ Len(lexer.source) <= MaxDirectLen
  /\ LET r == identifier(lexer)
     IN /\ lexer' = r.lexer
        /\ last' = r.result
        /\ emitted' = IF r.result.tag = "Ok" /\ last.tag # "Err" /\ ~CollectionDone
                      THEN Append(emitted, r.result.value)
                      ELSE emitted
  /\ calls' = calls + 1
  /\ direct' = direct + 1
  /\ UNCHANGED parvars

(***************************************************************************)
(* Program model: GateType, Component, Subcircuit, Program.                *)
(***************************************************************************)
GateType(k) == [kind |-> k, name |-> <<>>]

GateSubcircuit(n) == [kind |-> "Subcircuit", name |-> n]

Component(g, id, ins, outs) ==
  [gate_type |-> g, identifier |-> id, inputs |-> ins, outputs |-> outs]

SubcircuitDef(n, ins, outs, comps) ==
  [name |-> n, inputs |-> ins, outputs |-> outs, components |-> comps]

Program(subs, ins, outs, comps) ==
  [subcircuits |-> subs, inputs |-> ins, outputs |-> outs, components |-> comps]

\* HashMap::new and HashMap::insert: a map is a function on the set of its keys.
EmptyMap == <<>>

\* Variant: or_insert in place of insert, so the first value of a key is kept.
insert_keep_first(m, k, v) ==
  [x \in DOMAIN m \cup {k} |-> IF x \in DOMAIN m THEN m[x] ELSE v]

insert(m, k, v) == [x \in DOMAIN m \cup {k} |-> IF x = k THEN v ELSE m[x]]

(***************************************************************************)
(* Parser.                                                                 *)
(***************************************************************************)
\* Option<&TokenKind>::None
NoToken == [kind |-> "None", name |-> <<>>]

\* A formatted error String: the format text and the values printed with {:?}.
Message(text, args) == [text |-> text, args |-> args]

NewParser(tokens) == [tokens |-> tokens, position |-> 0]

current_token(p) ==
  IF p.position < Len(p.tokens) THEN p.tokens[p.position + 1] ELSE NoToken

\* Variant: the position is left where it is.
parser_advance_none(p) == p

parser_advance(p) == [p EXCEPT !.position = p.position + 1]

\* Parser::expect: [parser, result].
expect(p, expected) ==
  IF current_token(p) # NoToken
  THEN IF current_token(p) = expected
       THEN [parser |-> parser_advance(p), result |-> Ok(<<>>)]
       ELSE [parser |-> p,
             result |-> Err(Message("Expected {:?}, found {:?}",
                                    <<expected, current_token(p)>>))]
  ELSE [parser |-> p,
        result |-> Err(Message("Unexpected end of input, expected {:?}",
                               <<expected>>))]

PrimitiveKinds == {"And", "Or", "Not", "Nand", "Nor", "Xor", "Xnor"}

(***************************************************************************)
(* The parser as a state machine.  pc is the point of control inside       *)
(* parse_program and the productions it calls; frame holds their locals:   *)
(* in_subcircuit tells whether the running inputs/outputs/component-list   *)
(* productions were called by parse_subcircuit or by parse_program, name,  *)
(* inputs, outputs and components are the locals of that caller, and       *)
(* gate_type, identifier, comp_inputs and comp_outputs those of            *)
(* parse_component.  result is parse_program's return value.               *)
(***************************************************************************)
NewFrame ==
  [in_subcircuit |-> FALSE, name |-> <<>>, inputs |-> <<>>, outputs |-> <<>>,
   components |-> <<>>, gate_type |-> GateType("None"), identifier |-> <<>>,
   comp_inputs |-> <<>>, comp_outputs |-> <<>>]

\* A production returns Err: the ? operators carry it to parse_program's caller.
Fail(e) ==
  /\ result' = Err(e)
  /\ pc' = "done"
  /\ UNCHANGED <<parser, frame, subcircuits>>

\* parse_program: one test of the while-let loop; on leaving the loop
\* parse_inputs_section is called for the top level.
ProgramLoop ==
  /\ pc = "program"
  /\ IF current_token(parser) = Subcircuit
     THEN pc' = "subcircuit" /\ frame' = [frame EXCEPT !.in_subcircuit = TRUE]
     ELSE pc' = "inputs_skip" /\ frame' = [frame EXCEPT !.in_subcircuit = FALSE]
  /\ UNCHANGED <<parser, subcircuits, result>>
  /\ UNCHANGED lexvars

SubcircuitKeyword ==
  /\ pc = "subcircuit"
  /\ LET r == expect(parser, Subcircuit)
     IN IF r.result.tag = "Ok"
        THEN /\ parser' = r.parser
             /\ pc' = "subcircuit_name"
             /\ UNCHANGED <<frame, subcircuits, result>>
        ELSE Fail(r.result.value)
  /\ UNCHANGED lexvars

SubcircuitName ==
  /\ pc = "subcircuit_name"
  /\ IF current_token(parser).kind = "Identifier"
     THEN /\ frame' = [frame EXCEPT !.name = current_token(parser).name]
          /\ parser' = parser_advance(parser)
          /\ pc' = "subcircuit_newline"
          /\ UNCHANGED <<subcircuits, result>>
     ELSE Fail(Message("Expected subcircuit name", <<>>))
  /\ UNCHANGED lexvars

SubcircuitNewline ==
  /\ pc = "subcircuit_newline"
  /\ LET r == expect(parser, Newline)
     IN IF r.result.tag = "Ok"
        THEN /\ parser' = r.parser
             /\ pc' = "inputs_skip"
             /\ UNCHANGED <<frame, subcircuits, result>>
        ELSE Fail(r.result.value)
  /\ UNCHANGED lexvars

\* parse_inputs_section: one pass of the loop that skips leading newlines.
\* Variant: no newline is skipped before INPUTS.
InputsSkipNewline_none ==
  /\ pc = "inputs_skip"
  /\ parser' = parser
  /\ pc' = "inputs_expect"
  /\ UNCHANGED <<frame, subcircuits, result>>
  /\ UNCHANGED lexvars

InputsSkipNewline ==
  /\ pc = "inputs_skip"
  /\ IF current_token(parser) = Newline
     THEN parser' = parser_advance(parser) /\ pc' = "inputs_skip"
     ELSE parser' = parser /\ pc' = "inputs_expect"
  /\ UNCHANGED <<frame, subcircuits, result>>
  /\ UNCHANGED lexvars

InputsExpect ==
  /\ pc = "inputs_expect"
  /\ LET r == expect(parser, Inputs)
     IN IF r.result.tag = "Ok"
        THEN /\ parser' = r.parser
             /\ frame' = [frame EXCEPT !.inputs = <<>>]
             /\ pc' = "inputs_loop"
             /\ UNCHANGED <<subcircuits, result>>
        ELSE Fail(r.result.value)
  /\ UNCHANGED lexvars

\* Variant: a name already in the list is not pushed again.
InputsLoop_dedup ==
  /\ pc = "inputs_loop"
  /\ LET t == current_token(parser)
     IN IF t.kind = "Identifier"
        THEN /\ frame' = [frame EXCEPT !.inputs =
                            IF t.name \in Range(frame.inputs) THEN frame.inputs
                            ELSE Append(frame.inputs, t.name)]
             /\ parser' = parser_advance(parser)
             /\ pc' = "inputs_loop"
             /\ UNCHANGED <<subcircuits, result>>
        ELSE IF t = Comma
        THEN /\ parser' = parser_advance(parser)
             /\ pc' = "inputs_loop"
             /\ UNCHANGED <<frame, subcircuits, result>>
        ELSE IF t = Newline
        THEN /\ parser' = parser_advance(parser)
             /\ pc' = "outputs_expect"
             /\ UNCHANGED <<frame, subcircuits, result>>
        ELSE Fail(Message("Unexpected token in INPUTS section: {:?}", <<t>>))
  /\ UNCHANGED lexvars

\* parse_inputs_section: one pass of the port loop.
InputsLoop ==
  /\ pc = "inputs_loop"
  /\ LET t == current_token(parser)
     IN IF t.kind = "Identifier"
        THEN /\ frame' = [frame EXCEPT !.inputs = Append(frame.inputs, t.name)]
             /\ parser' = parser_advance(parser)
             /\ pc' = "inputs_loop"
             /\ UNCHANGED <<subcircuits, result>>
        ELSE IF t = Comma
        THEN /\ parser' = parser_advance(parser)
             /\ pc' = "inputs_loop"
             /\ UNCHANGED <<frame, subcircuits, result>>
        ELSE IF t = Newline
        THEN /\ parser' = parser_advance(parser)
             /\ pc' = "outputs_expect"
             /\ UNCHANGED <<frame, subcircuits, result>>
        ELSE Fail(Message("Unexpected token in INPUTS section: {:?}", <<t>>))
  /\ UNCHANGED lexvars

OutputsExpect ==
  /\ pc = "outputs_expect"
  /\ LET r == expect(parser, Outputs)
     IN IF r.result.tag = "Ok"
        THEN /\ parser' = r.parser
             /\ frame' = [frame EXCEPT !.outputs = <<>>]
             /\ pc' = "outputs_loop"
             /\ UNCHANGED <<subcircuits, result>>
        ELSE Fail(r.result.value)
  /\ UNCHANGED lexvars

\* parse_outputs_section: one pass of the port loop; on the newline the section
\* returns and its caller enters parse_component_list (components = vec![]).
OutputsLoop ==
  /\ pc = "outputs_loop"
  /\ LET t == current_token(parser)
     IN IF t.kind = "Identifier"
        THEN /\ frame' = [frame EXCEPT !.outputs = Append(frame.outputs, t.name)]
             /\ parser' = parser_advance(parser)
             /\ pc' = "outputs_loop"
             /\ UNCHANGED <<subcircuits, result>>
        ELSE IF t = Comma
        THEN /\ parser' = parser_advance(parser)
             /\ pc' = "outputs_loop"
             /\ UNCHANGED <<frame, subcircuits, result>>
        ELSE IF t = Newline
        THEN /\ parser' = parser_advance(parser)
             /\ frame' = [frame EXCEPT !.components = <<>>]
             /\ pc' = "component_list"
             /\ UNCHANGED <<subcircuits, result>>
        ELSE Fail(Message("Unexpected token in OUTPUTS section: {:?}", <<t>>))
  /\ UNCHANGED lexvars

\* Variant: the list also ends, without an error, at any other token.
ComponentListLoop_lenient ==
  /\ pc = "component_list"
  /\ LET t == current_token(parser)
     IN IF t.kind \in PrimitiveKinds \cup {"Identifier"}
        THEN pc' = "component" /\ UNCHANGED <<parser, frame, subcircuits, result>>
        ELSE IF t = Newline
        THEN /\ parser' = parser_advance(parser)
             /\ pc' = "component_list"
             /\ UNCHANGED <<frame, subcircuits, result>>
        ELSE IF frame.in_subcircuit
        THEN pc' = "subcircuit_end" /\ UNCHANGED <<parser, frame, subcircuits, result>>
        ELSE /\ result' = Ok(Program(subcircuits, frame.inputs, frame.outputs,
                                     frame.components))
             /\ pc' = "done"
             /\ UNCHANGED <<parser, frame, subcircuits>>
  /\ UNCHANGED lexvars

\* parse_component_list: one test of the while-let loop.  When the list returns
\* to parse_program, parse_program returns Ok(Program); when it returns to
\* parse_subcircuit, that continues with expect(End).
ComponentListLoop ==
  /\ pc = "component_list"
  /\ LET t == current_token(parser)
     IN IF t.kind \in PrimitiveKinds \cup {"Identifier"}
        THEN pc' = "component" /\ UNCHANGED <<parser, frame, subcircuits, result>>
        ELSE IF t = Newline
        THEN /\ parser' = parser_advance(parser)
             /\ pc' = "component_list"
             /\ UNCHANGED <<frame, subcircuits, result>>
        ELSE IF t = End \/ t = EOF \/ t = NoToken
        THEN IF frame.in_subcircuit
             THEN pc' = "subcircuit_end" /\ UNCHANGED <<parser, frame, subcircuits, result>>
             ELSE /\ result' = Ok(Program(subcircuits, frame.inputs, frame.outputs,
                                          frame.components))
                  /\ pc' = "done"
                  /\ UNCHANGED <<parser, frame, subcircuits>>
        ELSE Fail(Message("Unexpected token in component list: {:?}", <<t>>))
  /\ UNCHANGED lexvars

\* parse_component: the gate type match and the advance after it.
ComponentGate ==
  /\ pc = "component"
  /\ LET t == current_token(parser)
     IN IF t.kind \in PrimitiveKinds
        THEN /\ frame' = [frame EXCEPT !.gate_type = GateType(t.kind)]
             /\ parser' = parser_advance(parser)
             /\ pc' = "component_identifier"
             /\ UNCHANGED <<subcircuits, result>>
        ELSE IF t.kind = "Identifier"
        THEN /\ frame' = [frame EXCEPT !.gate_type = GateSubcircuit(t.name)]
             /\ parser' = parser_advance(parser)
             /\ pc' = "component_identifier"
             /\ UNCHANGED <<subcircuits, result>>
        ELSE Fail(Message("Unexpected token for gate type: {:?}", <<t>>))
  /\ UNCHANGED lexvars

\* Variant: an instance name is consumed after a subcircuit name as well.
ComponentIdentifier_any_gate ==
  /\ pc = "component_identifier"
  /\ IF current_token(parser).kind = "Identifier"
     THEN /\ frame' = [frame EXCEPT !.identifier = current_token(parser).name]
          /\ parser' = parser_advance(parser)
          /\ pc' = "component_in"
          /\ UNCHANGED <<subcircuits, result>>
     ELSE IF frame.gate_type.kind = "Subcircuit"
     THEN /\ frame' = [frame EXCEPT !.identifier = <<>>]
          /\ pc' = "component_in"
          /\ UNCHANGED <<parser, subcircuits, result>>
     ELSE Fail(Message("Expected identifier for component", <<>>))
  /\ UNCHANGED lexvars

\* parse_component: the instance name, taken only after a primitive gate keyword.
ComponentIdentifier ==
  /\ pc = "component_identifier"
  /\ IF frame.gate_type.kind = "Subcircuit"
     THEN /\ frame' = [frame EXCEPT !.identifier = <<>>]
          /\ pc' = "component_in"
          /\ UNCHANGED <<parser, subcircuits, result>>
     ELSE IF current_token(parser).kind = "Identifier"
     THEN /\ frame' = [frame EXCEPT !.identifier = current_token(parser).name]
          /\ parser' = parser_advance(parser)
          /\ pc' = "component_in"
          /\ UNCHANGED <<subcircuits, result>>
     ELSE Fail(Message("Expected identifier for component", <<>>))
  /\ UNCHANGED lexvars

ComponentIn ==
  /\ pc = "component_in"
  /\ LET r == expect(parser, In)
     IN IF r.result.tag = "Ok"
        THEN /\ parser' = r.parser
             /\ pc' = "component_in_open"
             /\ UNCHANGED <<frame, subcircuits, result>>
        ELSE Fail(r.result.value)
  /\ UNCHANGED lexvars

ComponentInOpen ==
  /\ pc = "component_in_open"
  /\ LET r == expect(parser, ParenOpen)
     IN IF r.result.tag = "Ok"
        THEN /\ parser' = r.parser
             /\ frame' = [frame EXCEPT !.comp_inputs = <<>>]
             /\ pc' = "component_inputs"
             /\ UNCHANGED <<subcircuits, result>>
        ELSE Fail(r.result.value)
  /\ UNCHANGED lexvars

\* One test of a while-let loop of parse_component over an identifier list:
\* <<parser, list, whether the loop goes round again>>.
id_list_pass(p, list) ==
  IF current_token(p).kind = "Identifier"
  THEN LET pushed == Append(list, current_token(p).name)
           p1 == parser_advance(p)
       IN IF current_token(p1) = Comma
          THEN <<parser_advance(p1), pushed, TRUE>>
          ELSE <<p1, pushed, FALSE>>
  ELSE <<p, list, FALSE>>

ComponentInputs ==
  /\ pc = "component_inputs"
  /\ LET r == id_list_pass(parser, frame.comp_inputs)
     IN /\ parser' = r[1]
        /\ frame' = [frame EXCEPT !.comp_inputs = r[2]]
        /\ pc' = IF r[3] THEN "component_inputs" ELSE "component_in_close"
  /\ UNCHANGED <<subcircuits, result>>
  /\ UNCHANGED lexvars

ComponentInClose ==
  /\ pc = "component_in_close"
  /\ LET r == expect(parser, ParenClose)
     IN IF r.result.tag = "Ok"
        THEN /\ parser' = r.parser
             /\ pc' = "component_out"
             /\ UNCHANGED <<frame, subcircuits, result>>
        ELSE Fail(r.result.value)
  /\ UNCHANGED lexvars

\* Variant: tokens before the next OUT are skipped.
ComponentOut_skipping ==
  /\ pc = "component_out"
  /\ IF current_token(parser) \notin {Out, NoToken}
     THEN /\ parser' = parser_advance(parser)
          /\ pc' = "component_out"
          /\ UNCHANGED <<frame, subcircuits, result>>
     ELSE LET r == expect(parser, Out)
          IN IF r.result.tag = "Ok"
             THEN /\ parser' = r.parser
                  /\ pc' = "component_out_open"
                  /\ UNCHANGED <<frame, subcircuits, result>>
             ELSE Fail(r.result.value)
  /\ UNCHANGED lexvars

ComponentOut ==
  /\ pc = "component_out"
  /\ LET r == expect(parser, Out)
     IN IF r.result.tag = "Ok"
        THEN /\ parser' = r.parser
             /\ pc' = "component_out_open"
             /\ UNCHANGED <<frame, subcircuits, result>>
        ELSE Fail(r.result.value)
  /\ UNCHANGED lexvars

ComponentOutOpen ==
  /\ pc = "component_out_open"
  /\ LET r == expect(parser, ParenOpen)
     IN IF r.result.tag = "Ok"
        THEN /\ parser' = r.parser
             /\ frame' = [frame EXCEPT !.comp_outputs = <<>>]
             /\ pc' = "component_outputs"
             /\ UNCHANGED <<subcircuits, result>>
        ELSE Fail(r.result.value)
  /\ UNCHANGED lexvars

ComponentOutputs ==
  /\ pc = "component_outputs"
  /\ LET r == id_list_pass(parser, frame.comp_outputs)
     IN /\ parser' = r[1]
        /\ frame' = [frame EXCEPT !.comp_outputs = r[2]]
        /\ pc' = IF r[3] THEN "component_outputs" ELSE "component_out_close"
  /\ UNCHANGED <<subcircuits, result>>
  /\ UNCHANGED lexvars

\* The last expect of parse_component, its Ok(Component) and the push of the
\* component by parse_component_list.
ComponentOutClose ==
  /\ pc = "component_out_close"
  /\ LET r == expect(parser, ParenClose)
     IN IF r.result.tag = "Ok"
        THEN /\ parser' = r.parser
             /\ frame' = [frame EXCEPT !.components =
                            Append(frame.components,
                                   Component(frame.gate_type, frame.identifier,
                                             frame.comp_inputs, frame.comp_outputs))]
             /\ pc' = "component_list"
             /\ UNCHANGED <<subcircuits, result>>
        ELSE Fail(r.result.value)
  /\ UNCHANGED lexvars

SubcircuitEnd ==
  /\ pc = "subcircuit_end"
  /\ LET r == expect(parser, End)
     IN IF r.result.tag = "Ok"
        THEN /\ parser' = r.parser
             /\ pc' = "subcircuit_end_newline"
             /\ UNCHANGED <<frame, subcircuits, result>>
        ELSE Fail(r.result.value)
  /\ UNCHANGED lexvars

\* The last expect of parse_subcircuit, its Ok(Subcircuit) and the insert of the
\* subcircuit by parse_program.
SubcircuitEndNewline ==
  /\ pc = "subcircuit_end_newline"
  /\ LET r == expect(parser, Newline)
     IN IF r.result.tag = "Ok"
        THEN /\ parser' = r.parser
             /\ subcircuits' = insert(subcircuits, frame.name,
                                      SubcircuitDef(frame.name, frame.inputs,
                                                    frame.outputs, frame.components))
             /\ pc' = "program"
             /\ UNCHANGED <<frame, result>>
        ELSE Fail(r.result.value)
  /\ UNCHANGED lexvars

(***************************************************************************)
(* Inputs of the parser: the grammatical programs with up to MaxSubs       *)
(* subcircuit blocks, MaxComps components per body and MaxPorts names per  *)
(* list that have at most MaxTokens tokens, and every token list one edit  *)
(* (a token deleted, inserted or replaced) away from one of them.          *)
(***************************************************************************)
PortNames == <<str(<<"a">>), str(<<"b">>), str(<<"c">>)>>

PortName(i) == PortNames[((i - 1) % Len(PortNames)) + 1]

IdList(m) ==
  [i \in 1..(IF m = 0 THEN 0 ELSE 2 * m - 1) |->
     IF i % 2 = 1 THEN Identifier(PortName((i + 1) \div 2)) ELSE Comma]

ComponentHead(j) ==
  IF j % 2 = 1 THEN <<And, Identifier(str(<<"g">>))>> ELSE <<Identifier(str(<<"H">>))>>

ComponentLine(j, m) ==
  ComponentHead(j) \o <<In, ParenOpen>> \o IdList(m) \o <<ParenClose, Out, ParenOpen>>
    \o IdList(m) \o <<ParenClose, Newline>>

RECURSIVE ComponentLines(_, _)
ComponentLines(k, m) ==
  IF k = 0 THEN <<>> ELSE ComponentLines(k - 1, m) \o ComponentLine(k, m)

BodyTokens(k, m) ==
  <<Inputs>> \o IdList(m) \o <<Newline, Outputs>> \o IdList(m) \o <<Newline>>
    \o ComponentLines(k, m)

BlockTokens(k, m) ==
  <<Subcircuit, Identifier(str(<<"H">>)), Newline>> \o BodyTokens(k, m) \o <<End, Newline>>

RECURSIVE BlocksTokens(_, _, _)
BlocksTokens(n, k, m) ==
  IF n = 0 THEN <<>> ELSE BlockTokens(k, m) \o BlocksTokens(n - 1, k, m)

ProgramTokens(n, k, m) == BlocksTokens(n, k, m) \o BodyTokens(k, m)

BasePrograms ==
  {t \in {ProgramTokens(n, k, m) : n \in 0..MaxSubs, k \in 0..MaxComps, m \in 0..MaxPorts} :
     Len(t) <= MaxTokens}

EditTokens ==
  {Inputs, Outputs, In, Out, Comma, ParenOpen, ParenClose, Newline, EOF,
   And, Or, Not, Nand, Nor, Xor, Xnor, Subcircuit, End,
   Identifier(str(<<"b">>)), Identifier(str(<<"G">>))}

Deleted(t, i) == SubSeq(t, 1, i - 1) \o SubSeq(t, i + 1, Len(t))

Inserted(t, i, x) == SubSeq(t, 1, i) \o <<x>> \o SubSeq(t, i + 1, Len(t))

Replaced(t, i, x) == [t EXCEPT ![i] = x]

Edits(t) ==
  {t} \cup {Deleted(t, i) : i \in 1..Len(t)}
      \cup {Inserted(t, i, x) : i \in 0..Len(t), x \in EditTokens}
      \cup {Replaced(t, i, x) : i \in 1..Len(t), x \in EditTokens}

\* Token lists in which a SUBCIRCUIT block comes after the top-level body:
\* directly after it, after a top-level END line, or after an EOF token.
LateBlockPrograms ==
  {BodyTokens(k, 0) \o sep \o BlockTokens(0, 0) \o tail :
     k \in 0..1, sep \in {<<>>, <<End, Newline>>, <<EOF>>}, tail \in {<<>>, <<EOF>>}}

\* The token lists that stop early: every prefix of t, as it is (the token list
\* is exhausted there) and with the EOF token after it.
Truncations(t) ==
  {SubSeq(t, 1, n) \o tail : n \in 0..Len(t), tail \in {<<>>, <<EOF>>}}

\* t with j Newline tokens put before every INPUTS and o before every OUTPUTS.
RECURSIVE NewlineRun(_)
NewlineRun(j) == IF j = 0 THEN <<>> ELSE <<Newline>> \o NewlineRun(j - 1)

RECURSIVE BlankLines(_, _, _)
BlankLines(t, j, o) ==
  IF Len(t) = 0 THEN <<>>
  ELSE (IF t[1] = Inputs THEN NewlineRun(j)
        ELSE IF t[1] = Outputs THEN NewlineRun(o)
        ELSE <<>>) \o <<t[1]>> \o BlankLines(Tail(t), j, o)

BlankLinePrograms ==
  {BlankLines(t, j, o) : t \in BasePrograms, j \in 0..MaxBlank, o \in 0..1}

TokenLists ==
  UNION {Edits(t) \cup Truncations(t) : t \in BasePrograms}
    \cup LateBlockPrograms \cup BlankLinePrograms

(***************************************************************************)
(* Specifications.  LexerSpec: a Lexer over every source of at most        *)
(* MaxSrcLen characters of SourceChars, over the sources that spell the    *)
(* keywords and over WideSources.  ParserSpec: parse_program on a Parser   *)
(* over every token list of TokenLists.                                    *)
(***************************************************************************)
LexerIdle ==
  /\ lexer = NewLexer(<<>>)
  /\ last = NoResult
  /\ emitted = <<>>
  /\ calls = 0
  /\ direct = 0

ParserIdle ==
  /\ parser = NewParser(<<>>)
  /\ pc = "idle"
  /\ frame = NewFrame
  /\ subcircuits = EmptyMap
  /\ result = NoResult

LexerInit ==
  /\ lexer \in {NewLexer(src) : src \in Sources \cup KeywordSources \cup WideSources}
  /\ last = NoResult
  /\ emitted = <<>>
  /\ calls = 0
  /\ direct = 0
  /\ ParserIdle

LexerNext == GetNextToken \/ CallIdentifier

LexerSpec == LexerInit /\ [][LexerNext]_vars

ParserInit ==
  /\ parser \in {NewParser(t) : t \in TokenLists}
  /\ pc = "program"
  /\ frame = NewFrame
  /\ subcircuits = EmptyMap
  /\ result = NoResult
  /\ LexerIdle

ParserNext ==
  \/ ProgramLoop
  \/ SubcircuitKeyword
  \/ SubcircuitName
  \/ SubcircuitNewline
  \/ InputsSkipNewline
  \/ InputsExpect
  \/ InputsLoop
  \/ OutputsExpect
  \/ OutputsLoop
  \/ ComponentListLoop
  \/ ComponentGate
  \/ ComponentIdentifier
  \/ ComponentIn
  \/ ComponentInOpen
  \/ ComponentInputs
  \/ ComponentInClose
  \/ ComponentOut
  \/ ComponentOutOpen
  \/ ComponentOutputs
  \/ ComponentOutClose
  \/ SubcircuitEnd
  \/ SubcircuitEndNewline

ParserSpec == ParserInit /\ [][ParserNext]_vars

\* The parser run to completion: parse_program is a sequential function, so a
\* step that is enabled is eventually taken.
ParserLiveSpec == ParserInit /\ [][ParserNext]_vars /\ WF_vars(ParserNext)

\* Both machines: a run is a Lexer on a source or a Parser on a token list.
Init == LexerInit \/ ParserInit

Next == LexerNext \/ ParserNext

Spec == Init /\ [][Next]_vars

(***************************************************************************)
(* Properties of the lexer (checked under LexerSpec).                      *)
(***************************************************************************)
\* The tokens a caller collects from a fresh Lexer on src by calling
\* get_next_token until it returns EOF (kept as the last token) or an error.
RECURSIVE Collect(_)
Collect(lx) ==
  LET r == get_next_token(lx)
  IN IF r.result.tag = "Err" THEN <<>>
     ELSE IF r.result.value = EOF THEN <<EOF>>
     ELSE <<r.result.value>> \o Collect(r.lexer)

TokensOf(src) == Collect(NewLexer(src))

\* src with the text of every comment, from its # up to but not including the
\* line break, deleted.
RECURSIVE StripFrom(_, _, _)
StripFrom(src, i, in_comment) ==
  IF i > Len(src) THEN <<>>
  ELSE IF src[i] = LineFeed THEN <<src[i]>> \o StripFrom(src, i + 1, FALSE)
  ELSE IF in_comment \/ src[i] = Hash THEN StripFrom(src, i + 1, TRUE)
  ELSE <<src[i]>> \o StripFrom(src, i + 1, FALSE)

StripCommentText(src) == StripFrom(src, 1, FALSE)

\* C2: comments are invisible: once the caller has collected the tokens of the
\* source by get_next_token (EOF or an error was returned, and identifier was
\* not called directly), they are the tokens of the source with
\* each comment's text (the line break not included) deleted, so the Newline
\* after a trailing comment is still delivered.
C2_CommentsInvisible ==
  (Finished /\ direct = 0) => emitted = TokensOf(StripCommentText(lexer.source))

\* The lines <<a, b>> of src (first and last index, the line break included when
\* there is one) that hold only non-newline whitespace followed by a comment.
FullCommentLines(src) ==
  {ln \in (1..Len(src)) \X (1..Len(src)) :
     /\ ln[1] <= ln[2]
     /\ (ln[1] = 1 \/ src[ln[1] - 1] = LineFeed)
     /\ \A j \in ln[1]..(ln[2] - 1) : src[j] # LineFeed
     /\ (src[ln[2]] = LineFeed \/ ln[2] = Len(src))
     /\ \E k \in ln[1]..ln[2] :
          /\ src[k] = Hash
          /\ \A j \in ln[1]..(k - 1) : is_whitespace(src[j])}

WithoutLine(src, ln) == SubSeq(src, 1, ln[1] - 1) \o SubSeq(src, ln[2] + 1, Len(src))

\* C3: full-line comment stripping: the tokens get_next_token yields for a source are the
\* tokens of the source with any one full-line comment (optional non-newline
\* whitespace, then a comment), its line break included, removed.
C3_FullLineCommentStripped ==
  (Finished /\ direct = 0) =>
    \A ln \in FullCommentLines(lexer.source) :
      emitted = TokensOf(WithoutLine(lexer.source, ln))

C3_Witness ==
  /\ last = Ok(EOF)
  /\ direct = 0
  /\ FullCommentLines(lexer.source) # {}
  /\ \E i \in DOMAIN emitted : emitted[i].kind = "Identifier"
  /\ \E i \in DOMAIN emitted : emitted[i] = Newline

\* C8: end-of-stream idempotence: when get_next_token has returned EOF the
\* cursor is past the last character, and from then on every call of
\* get_next_token (a step that leaves direct as it is) returns Ok(EOF) and
\* leaves position, line and column unchanged.
C8_EofIdempotent ==
  /\ [](last = Ok(EOF) => lexer.current_char = None)
  /\ [][(lexer.current_char = None /\ calls' = calls + 1 /\ direct' = direct) =>
          /\ last' = Ok(EOF)
          /\ lexer'.current_char = None
          /\ lexer'.position = lexer.position
          /\ lexer'.line = lexer.line
          /\ lexer'.column = lexer.column]_vars

C8_Witness ==
  /\ last = Ok(EOF)
  /\ direct = 0
  /\ calls > Len(emitted)
  /\ Len(emitted) > 1

\* src holds only whitespace and comments: every character is whitespace or lies
\* in a comment (after a # of its own line).
InComment(src, i) ==
  \E k \in 1..i : src[k] = Hash /\ \A j \in k..(i - 1) : src[j] # LineFeed

WhitespaceAndComments(src) ==
  \A i \in 1..Len(src) : is_whitespace(src[i]) \/ InComment(src, i)

\* C9: on a source of whitespace and comments only, with the tokens taken by
\* get_next_token alone, get_next_token never returns
\* an error, returns nothing but Newline before EOF, and has returned EOF after at
\* most Len(source) + 1 calls.
C9_WhitespaceAndCommentsReachEof ==
  (WhitespaceAndComments(lexer.source) /\ direct = 0) =>
    /\ last.tag # "Err"
    /\ \A i \in DOMAIN emitted :
         emitted[i] = Newline \/ (emitted[i] = EOF /\ i = Len(emitted))
    /\ (calls >= Len(lexer.source) + 1 => last = Ok(EOF))

C9_Witness ==
  /\ WhitespaceAndComments(lexer.source)
  /\ direct = 0
  /\ last = Ok(EOF)
  /\ \E i \in DOMAIN emitted : emitted[i] = Newline
  /\ \E i \in DOMAIN lexer.source : lexer.source[i] = ord("$")
  /\ \E i \in DOMAIN lexer.source : lexer.source[i] = ord(" ")

WordChar(c) == is_alphanumeric(c) \/ c = Underscore

\* The first index of the run of word characters of src that ends at index p.
RunStart(src, p) ==
  CHOOSE a \in 1..p :
    /\ \A j \in a..p : WordChar(src[j])
    /\ (a = 1 \/ ~WordChar(src[a - 1]))

\* The token of a word by the claim: the keyword's token when the word,
\* case-folded, is that keyword, and otherwise the Identifier of the word as
\* written.
TokenOfFolded(word, tok) ==
  IF \E kw \in Keywords : kw[1] = LowerCase(word)
  THEN \E kw \in Keywords : kw[1] = LowerCase(word) /\ tok = kw[2]
  ELSE tok = Identifier(word)

\* C10: keyword recognition is case-insensitive and whole-token: a token that
\* ends in a word character is the scan of a maximal run of alphanumerics and
\* underscores, which starts with a letter when the tokens were taken by
\* get_next_token alone; it is a keyword's token exactly when the run,
\* case-folded, is that keyword, and otherwise the Identifier of the run as
\* written.
C10_KeywordsWholeTokenAnyCase ==
  (/\ last.tag = "Ok"
   /\ last.value # EOF
   /\ lexer.position >= 1
   /\ WordChar(lexer.source[lexer.position])) =>
    LET src == lexer.source
        p == lexer.position
        a == RunStart(src, p)
        word == SubSeq(src, a, p)
    IN /\ (p = Len(src) \/ ~WordChar(src[p + 1]))
       /\ (direct = 0 => is_alphabetic(src[a]))
       /\ TokenOfFolded(word, last.value)

\* What holds of the scan in place of C10: the run is maximal and starts with a
\* letter as C10 says, and its token is the one of its case-folded text unless
\* the run holds U+0131 (dotless i), which folds to itself and has the upper
\* case "I"; in every case the token is the keyword whose text is the upper
\* case of the run, when there is one, and the Identifier of the run otherwise.
KeywordsByUpperCase ==
  (/\ last.tag = "Ok"
   /\ last.value # EOF
   /\ lexer.position >= 1
   /\ WordChar(lexer.source[lexer.position])) =>
    LET src == lexer.source
        p == lexer.position
        a == RunStart(src, p)
        word == SubSeq(src, a, p)
    IN /\ (p = Len(src) \/ ~WordChar(src[p + 1]))
       /\ (direct = 0 => is_alphabetic(src[a]))
       /\ (\A i \in DOMAIN word : word[i] # 305) => TokenOfFolded(word, last.value)
       /\ last.value = keyword(to_uppercase(word), word)

\* The grammar of the language, as a recogniser of token lists:
\*   program         := subcircuit* inputs_section outputs_section component_list
\*   subcircuit      := SUBCIRCUIT identifier NL inputs_section outputs_section
\*                      component_list END NL
\*   inputs_section  := NL* INPUTS port_list NL
\*   outputs_section := OUTPUTS port_list NL
\*   port_list       := (identifier (COMMA identifier)*)?
\*   component_list  := (component | NL)*
\*   component       := gate_kw identifier? IN LPAREN id_list RPAREN
\*                      OUT LPAREN id_list RPAREN
\*   id_list         := (identifier (COMMA identifier)*)?
\* where the identifier of a component is present exactly when gate_kw is a
\* primitive gate.  A token list conforms when it is a program, optionally
\* followed by the EOF token.
IsIdentifier(t) == t.kind = "Identifier"

IsIdList(s) ==
  \/ Len(s) = 0
  \/ /\ Len(s) % 2 = 1
     /\ \A i \in 1..Len(s) : IF i % 2 = 1 THEN IsIdentifier(s[i]) ELSE s[i] = Comma

NamesOf(s) ==
  LET ids == SelectSeq(s, IsIdentifier) IN [i \in 1..Len(ids) |-> ids[i].name]

\* The first index from `from` on at which s holds t, or 0.
IndexOf(s, t, from) ==
  IF \E i \in from..Len(s) : s[i] = t
  THEN CHOOSE i \in from..Len(s) : s[i] = t /\ \A j \in from..(i - 1) : s[j] # t
  ELSE 0

HeadLen(s) == IF Len(s) >= 1 /\ s[1].kind \in PrimitiveKinds THEN 2 ELSE 1

IsComponentText(s) ==
  LET h == HeadLen(s)
      c == IndexOf(s, ParenClose, h + 3)
  IN /\ Len(s) >= h + 6
     /\ IsIdentifier(s[h])
     /\ s[h + 1] = In
     /\ s[h + 2] = ParenOpen
     /\ c # 0
     /\ c + 3 <= Len(s)
     /\ IsIdList(SubSeq(s, h + 3, c - 1))
     /\ s[c + 1] = Out
     /\ s[c + 2] = ParenOpen
     /\ s[Len(s)] = ParenClose
     /\ IsIdList(SubSeq(s, c + 3, Len(s) - 1))

ComponentOfText(s) ==
  LET h == HeadLen(s)
      c == IndexOf(s, ParenClose, h + 3)
  IN Component(IF h = 2 THEN GateType(s[1].kind) ELSE GateSubcircuit(s[1].name),
               IF h = 2 THEN s[2].name ELSE <<>>,
               NamesOf(SubSeq(s, h + 3, c - 1)),
               NamesOf(SubSeq(s, c + 3, Len(s) - 1)))

RECURSIVE IsComponentListText(_)
IsComponentListText(s) ==
  \/ Len(s) = 0
  \/ /\ Len(s) > 0
     /\ s[1] = Newline
     /\ IsComponentListText(Tail(s))
  \/ \E k \in 1..Len(s) :
       /\ IsComponentText(SubSeq(s, 1, k))
       /\ IsComponentListText(SubSeq(s, k + 1, Len(s)))

RECURSIVE ComponentsOfText(_)
ComponentsOfText(s) ==
  IF Len(s) = 0 THEN <<>>
  ELSE IF s[1] = Newline THEN ComponentsOfText(Tail(s))
  ELSE LET k == CHOOSE k \in 1..Len(s) :
                  /\ IsComponentText(SubSeq(s, 1, k))
                  /\ IsComponentListText(SubSeq(s, k + 1, Len(s)))
       IN <<ComponentOfText(SubSeq(s, 1, k))>> \o ComponentsOfText(SubSeq(s, k + 1, Len(s)))

RECURSIVE SkipNewlines(_)
SkipNewlines(s) == IF Len(s) > 0 /\ s[1] = Newline THEN SkipNewlines(Tail(s)) ELSE s

IsBodyText(s0) ==
  LET s == SkipNewlines(s0)
      n1 == IndexOf(s, Newline, 2)
      n2 == IndexOf(s, Newline, n1 + 2)
  IN /\ Len(s) >= 4
     /\ s[1] = Inputs
     /\ n1 # 0
     /\ IsIdList(SubSeq(s, 2, n1 - 1))
     /\ n1 + 1 <= Len(s)
     /\ s[n1 + 1] = Outputs
     /\ n2 # 0
     /\ IsIdList(SubSeq(s, n1 + 2, n2 - 1))
     /\ IsComponentListText(SubSeq(s, n2 + 1, Len(s)))

\* The parts of a body: the names of its INPUTS line, of its OUTPUTS line, and
\* its component statements.
BodyInputs(s0) ==
  LET s == SkipNewlines(s0) IN NamesOf(SubSeq(s, 2, IndexOf(s, Newline, 2) - 1))

BodyOutputs(s0) ==
  LET s == SkipNewlines(s0)
      n1 == IndexOf(s, Newline, 2)
  IN NamesOf(SubSeq(s, n1 + 2, IndexOf(s, Newline, n1 + 2) - 1))

BodyComponents(s0) ==
  LET s == SkipNewlines(s0)
      n1 == IndexOf(s, Newline, 2)
  IN ComponentsOfText(SubSeq(s, IndexOf(s, Newline, n1 + 2) + 1, Len(s)))

IsSubcircuitText(s) ==
  /\ Len(s) >= 9
  /\ s[1] = Subcircuit
  /\ IsIdentifier(s[2])
  /\ s[3] = Newline
  /\ s[Len(s) - 1] = End
  /\ s[Len(s)] = Newline
  /\ IsBodyText(SubSeq(s, 4, Len(s) - 2))

RECURSIVE IsProgramText(_)
IsProgramText(s) ==
  \/ IsBodyText(s)
  \/ \E k \in 1..Len(s) :
       /\ IsSubcircuitText(SubSeq(s, 1, k))
       /\ IsProgramText(SubSeq(s, k + 1, Len(s)))

\* The top-level body of a program: what follows its subcircuit blocks.
RECURSIVE TopLevelText(_)
TopLevelText(s) ==
  IF IsBodyText(s) THEN s
  ELSE LET k == CHOOSE k \in 1..Len(s) :
                  /\ IsSubcircuitText(SubSeq(s, 1, k))
                  /\ IsProgramText(SubSeq(s, k + 1, Len(s)))
       IN TopLevelText(SubSeq(s, k + 1, Len(s)))

WithoutEof(s) ==
  IF Len(s) > 0 /\ s[Len(s)] = EOF THEN SubSeq(s, 1, Len(s) - 1) ELSE s

Conforms(s) == IsProgramText(s) \/ (s # WithoutEof(s) /\ IsProgramText(WithoutEof(s)))

(***************************************************************************)
(* Properties of the parser (checked under ParserSpec).                    *)
(***************************************************************************)
Returned == pc = "done"

ReturnedOk == pc = "done" /\ result.tag = "Ok"

\* C1: parse_program returns a Program only for grammatical token lists; in
\* particular the port list of every INPUTS and OUTPUTS section it has parsed
\* is empty or identifiers separated by exactly one comma each.
C1_PortListsGrammatical ==
  ReturnedOk =>
    \A i \in 1..parser.position :
      parser.tokens[i] \in {Inputs, Outputs} =>
        LET n == IndexOf(parser.tokens, Newline, i + 1)
        IN n # 0 /\ IsIdList(SubSeq(parser.tokens, i + 1, n - 1))

\* C4: component identifiers are gate-type-conditional.  When parse_component
\* has consumed IN, the token before IN is an Identifier; if a primitive gate
\* keyword precedes that Identifier, the component has that gate type and the
\* Identifier is its instance name; otherwise the Identifier is the subcircuit
\* called, and the component has gate_type Subcircuit(name) and identifier "".
\* Every primitive gate keyword consumed with its successor is followed by an
\* Identifier, and every component recorded for a subcircuit call has the
\* empty identifier.
AllComponents ==
  {frame.components[i] : i \in DOMAIN frame.components}
    \cup UNION {{subcircuits[n].components[i] : i \in DOMAIN subcircuits[n].components} :
                  n \in DOMAIN subcircuits}

C4_IdentifierByGateType ==
  /\ pc = "component_in_open" =>
       LET p == parser.position
           toks == parser.tokens
       IN /\ p >= 2
          /\ toks[p] = In
          /\ IsIdentifier(toks[p - 1])
          /\ IF p >= 3 /\ toks[p - 2].kind \in PrimitiveKinds
             THEN /\ frame.gate_type = GateType(toks[p - 2].kind)
                  /\ frame.identifier = toks[p - 1].name
             ELSE /\ frame.gate_type = GateSubcircuit(toks[p - 1].name)
                  /\ frame.identifier = <<>>
  /\ \A i \in 1..(parser.position - 1) :
       parser.tokens[i].kind \in PrimitiveKinds => IsIdentifier(parser.tokens[i + 1])
  /\ \A c \in AllComponents :
       /\ c.gate_type.kind \in PrimitiveKinds \cup {"Subcircuit"}
       /\ c.gate_type.kind = "Subcircuit" => c.identifier = <<>>

C4_Witness ==
  /\ ReturnedOk
  /\ Len(result.value.components) = 2
  /\ result.value.components[1].gate_type = GateType("Xnor")
  /\ result.value.components[1].identifier = str(<<"g">>)
  /\ result.value.components[2] =
       Component(GateSubcircuit(str(<<"H">>)), <<>>, <<str(<<"a">>)>>, <<str(<<"a">>)>>)

\* C5: whenever parse_program returns Ok the whole token stream was consumed:
\* the position is past the last token, or at an EOF token that is the last.
C5_WholeStreamConsumed ==
  ReturnedOk =>
    \/ parser.position >= Len(parser.tokens)
    \/ (parser.position + 1 = Len(parser.tokens) /\ current_token(parser) = EOF)

\* C6: for a grammatical token list parse_program returns a Program whose inputs
\* and outputs are the names of the top-level INPUTS and OUTPUTS lines in order,
\* duplicates kept, and whose components are the top-level component statements
\* in order, each with its gate type, instance name and IN/OUT names in order;
\* the subcircuit table is empty when there is no SUBCIRCUIT block.
C6_ProgramReproducesSource ==
  (Returned /\ Conforms(parser.tokens)) =>
    LET top == TopLevelText(WithoutEof(parser.tokens))
    IN /\ result.tag = "Ok"
       /\ result.value.inputs = BodyInputs(top)
       /\ result.value.outputs = BodyOutputs(top)
       /\ result.value.components = BodyComponents(top)
       /\ (Subcircuit \notin Range(parser.tokens) =>
             DOMAIN result.value.subcircuits = {})

C6_Witness ==
  /\ ReturnedOk
  /\ Conforms(parser.tokens)
  /\ result.value.inputs = <<str(<<"b">>), str(<<"b">>)>>
  /\ result.value.outputs = <<str(<<"a">>), str(<<"b">>)>>
  /\ Len(result.value.components) = 2
  /\ result.value.components[1].inputs = <<str(<<"a">>), str(<<"b">>)>>
  /\ DOMAIN result.value.subcircuits = {}

(***************************************************************************)
(* Errors (checked under Spec, which runs both machines).                  *)
(***************************************************************************)
\* An error value that carries a kind, the offending character or token, and a
\* 1-based (line, column) location.
StructuredError(e) ==
  /\ {"kind", "location"} \subseteq DOMAIN e
  /\ ("char" \in DOMAIN e \/ "token" \in DOMAIN e \/ "text" \in DOMAIN e)
  /\ e.location.line >= 1
  /\ e.location.column >= 1

\* C7 as stated: every failure returned by get_next_token or by parse_program is
\* a structured error with a kind, the offending token or character and a
\* 1-based location.
C7_EveryErrorStructured ==
  /\ last.tag = "Err" => StructuredError(last.value)
  /\ result.tag = "Err" => StructuredError(result.value)

ParserMessages ==
  {"Expected {:?}, found {:?}", "Unexpected end of input, expected {:?}",
   "Expected subcircuit name", "Unexpected token in INPUTS section: {:?}",
   "Unexpected token in OUTPUTS section: {:?}",
   "Unexpected token in component list: {:?}", "Expected identifier for component"}

\* The number of tokens a parser message prints: the expected and the found
\* token, one of the two, or none.
PrintedTokens(text) ==
  CASE text = "Expected {:?}, found {:?}" -> 2
    [] text \in {"Expected subcircuit name", "Expected identifier for component"} -> 0
    [] OTHER -> 1

\* C7 as amended: a failure of get_next_token is UnexpectedCharacter with the
\* character under the cursor and a 1-based (line, column) location (the other
\* lexer error, InvalidIdentifier with the empty text and a location, is
\* returned only to a caller that calls identifier directly); a failure
\* of parse_program is a message string, one of the parser's message texts
\* with the tokens it names printed in it (two texts name no token), and it
\* carries no error kind and no location.
C7_LexerErrorsStructuredParserErrorsMessages ==
  /\ last.tag = "Err" =>
       /\ StructuredError(last.value)
       /\ IF last.value.kind = "UnexpectedCharacter"
          THEN /\ last.value.char = lexer.current_char
               /\ last.value.char # None
          ELSE /\ direct > 0
               /\ last.value = InvalidIdentifier(<<>>, get_location(lexer))
  /\ result.tag = "Err" =>
       /\ DOMAIN result.value = {"text", "args"}
       /\ result.value.text \in ParserMessages
       /\ Len(result.value.args) = PrintedTokens(result.value.text)
       /\ \A i \in DOMAIN result.value.args :
            DOMAIN result.value.args[i] = {"kind", "name"}

C7_Witness ==
  /\ last.tag = "Err"
  /\ direct = 0
  /\ last.value.char = ord("$")
  /\ last.value.location = Location(2, 2)

(***************************************************************************)
(* Subcircuit collection (checked under ParserSpec).                       *)
(***************************************************************************)
\* The indices of the SUBCIRCUIT tokens of s that do not open a block of the
\* leading run.  The list is walked from index i; where is "lead" at a point
\* where the leading run of SUBCIRCUIT ... END NL blocks may continue, "block"
\* inside a block of that run, and "after" once any other top-level token has
\* been passed.
RECURSIVE MisplacedFrom(_, _, _)
MisplacedFrom(s, i, where) ==
  IF i > Len(s) THEN {}
  ELSE IF s[i] = Subcircuit
  THEN IF where = "lead" THEN MisplacedFrom(s, i + 1, "block")
       ELSE {i} \cup MisplacedFrom(s, i + 1, where)
  ELSE IF where = "lead" THEN MisplacedFrom(s, i + 1, "after")
  ELSE IF where = "block" /\ s[i] = End /\ i < Len(s) /\ s[i + 1] = Newline
  THEN MisplacedFrom(s, i + 2, "lead")
  ELSE MisplacedFrom(s, i + 1, where)

Misplaced(s) == MisplacedFrom(s, 1, "lead")

\* C11: subcircuits are collected only in the leading run of blocks: a SUBCIRCUIT
\* token that comes after a top-level token outside such a block (a bare Newline
\* included) or inside a subcircuit body is never parsed as a definition (the
\* parser never stands behind it expecting a subcircuit name, so no table entry
\* is made for it), and a token list that holds one makes parse_program return
\* an error.
C11_SubcircuitsOnlyInLeadingRun ==
  /\ pc = "subcircuit_name" => parser.position \notin Misplaced(parser.tokens)
  /\ (Returned /\ Misplaced(parser.tokens) # {}) => result.tag = "Err"

\* The part of C11 that the parser keeps: parse_subcircuit is entered only at a
\* SUBCIRCUIT token of the leading run, and a misplaced SUBCIRCUIT token that
\* the parser reaches makes it fail.
SubcircuitEnteredInPlace ==
  /\ pc = "subcircuit_name" => parser.position \notin Misplaced(parser.tokens)
  /\ (pc \notin {"program", "subcircuit", "idle", "done"}
       /\ current_token(parser) = Subcircuit) =>
        parser.position + 1 \in Misplaced(parser.tokens)
  /\ (ReturnedOk /\ Misplaced(parser.tokens) # {}) =>
        \A i \in Misplaced(parser.tokens) : i > parser.position + 1

\* The indices of the SUBCIRCUIT tokens that open the blocks of the leading run.
BlockStarts(s) == {i \in 1..Len(s) : s[i] = Subcircuit} \ Misplaced(s)

\* The body of the block opened at index i: the tokens between the Newline
\* after its name and its END.
BlockBody(s, i) == SubSeq(s, i + 3, IndexOf(s, End, i) - 1)

\* The component statements of a component list as the parser reads them: a
\* statement runs from its gate keyword or subcircuit name to its second `)`.
StatementEnd(s) == IndexOf(s, ParenClose, IndexOf(s, ParenClose, 1) + 1)

StatementOf(s) ==
  LET h == HeadLen(s)
      c == IndexOf(s, ParenClose, 1)
  IN Component(IF h = 2 THEN GateType(s[1].kind) ELSE GateSubcircuit(s[1].name),
               IF h = 2 THEN s[2].name ELSE <<>>,
               NamesOf(SubSeq(s, h + 3, c - 1)),
               NamesOf(SubSeq(s, c + 3, Len(s) - 1)))

RECURSIVE StatementsOf(_)
StatementsOf(s) ==
  IF Len(s) = 0 THEN <<>>
  ELSE IF s[1] = Newline THEN StatementsOf(Tail(s))
  ELSE <<StatementOf(SubSeq(s, 1, StatementEnd(s)))>>
         \o StatementsOf(SubSeq(s, StatementEnd(s) + 1, Len(s)))

\* The Subcircuit that the block opened at index i defines.
DefinitionAt(s, i) ==
  LET body == SkipNewlines(BlockBody(s, i))
      n1 == IndexOf(body, Newline, 2)
      n2 == IndexOf(body, Newline, n1 + 2)
  IN SubcircuitDef(s[i + 1].name, BodyInputs(body), BodyOutputs(body),
                   StatementsOf(SubSeq(body, n2 + 1, Len(body))))

\* C12: duplicate subcircuit names cause no error, and after a successful
\* parse_program the table has exactly one entry per name defined in the
\* leading run of blocks, each under its own name, and the entry of a name
\* holds the inputs, outputs and components of the last block of that name.
C12_LastDefinitionWins ==
  /\ (Returned /\ Conforms(parser.tokens)) => result.tag = "Ok"
  /\ ReturnedOk =>
       LET s == parser.tokens
           table == result.value.subcircuits
       IN /\ DOMAIN table = {s[i + 1].name : i \in BlockStarts(s)}
          /\ \A n \in DOMAIN table : table[n].name = n
          /\ \A i \in BlockStarts(s) :
               (\A j \in BlockStarts(s) : s[j + 1].name = s[i + 1].name => j <= i) =>
                 table[s[i + 1].name] = DefinitionAt(s, i)

C12_Witness ==
  /\ ReturnedOk
  /\ \E i, j \in BlockStarts(parser.tokens) :
       /\ i < j
       /\ parser.tokens[i + 1] = parser.tokens[j + 1]
       /\ DefinitionAt(parser.tokens, i).inputs # DefinitionAt(parser.tokens, j).inputs
       /\ DefinitionAt(parser.tokens, j).components # <<>>
       /\ result.value.subcircuits[parser.tokens[j + 1].name] = DefinitionAt(parser.tokens, j)
  /\ Cardinality(DOMAIN result.value.subcircuits) = 1

(***************************************************************************)
(* Components (checked under ParserSpec).                                  *)
(***************************************************************************)
\* C13: error locality for a missing OUT.  When the `)` that closes a
\* component's IN list has been consumed and the current token is not OUT (or
\* there is none), the next step returns an error whose message names the
\* expected Out (and the token found, when there is one); no token is skipped
\* and the component is not recorded.  Conversely a returned message that
\* expects Out was raised directly behind a `)`.
C13_MissingOutFailsInPlace ==
  [][(pc = "component_out" /\ current_token(parser) # Out) =>
       /\ pc' = "done"
       /\ result'.tag = "Err"
       /\ result'.value =
            (IF current_token(parser) = NoToken
             THEN Message("Unexpected end of input, expected {:?}", <<Out>>)
             ELSE Message("Expected {:?}, found {:?}", <<Out, current_token(parser)>>))
       /\ parser' = parser
       /\ parser.tokens[parser.position] = ParenClose
       /\ frame'.components = frame.components
       /\ subcircuits' = subcircuits]_vars

C13_Witness ==
  /\ pc = "done"
  /\ result = Err(Message("Expected {:?}, found {:?}", <<Out, Newline>>))
  /\ parser.tokens[parser.position] = ParenClose
  /\ \E i \in (parser.position + 2)..Len(parser.tokens) : parser.tokens[i] = Out
  /\ Len(frame.components) = 1

\* The same at the end of the token list: the list is exhausted behind the `)`.
C13_WitnessAtEnd ==
  /\ pc = "done"
  /\ result = Err(Message("Unexpected end of input, expected {:?}", <<Out>>))
  /\ parser.position = Len(parser.tokens)
  /\ parser.tokens[parser.position] = ParenClose

(***************************************************************************)
(* Blank lines (checked under ParserSpec).                                 *)
(***************************************************************************)
\* The Newline at index i of s is a blank line before INPUTS: it follows a
\* Newline or starts the list, and only Newlines lie between it and an INPUTS.
BlankBeforeInputs(s, i) ==
  /\ s[i] = Newline
  /\ (i = 1 \/ s[i - 1] = Newline)
  /\ \E k \in (i + 1)..Len(s) : s[k] = Inputs /\ \A j \in i..(k - 1) : s[j] = Newline

RECURSIVE UnblankFrom(_, _)
UnblankFrom(s, i) ==
  IF i > Len(s) THEN <<>>
  ELSE IF BlankBeforeInputs(s, i) THEN UnblankFrom(s, i + 1)
  ELSE <<s[i]>> \o UnblankFrom(s, i + 1)

\* s without its blank lines before INPUTS.
Unblank(s) == UnblankFrom(s, 1)

\* The Program a grammatical token list s denotes.
ProgramOf(s) ==
  LET top == TopLevelText(WithoutEof(s))
      names == {s[i + 1].name : i \in BlockStarts(s)}
      last_of(n) == CHOOSE i \in BlockStarts(s) :
                      /\ s[i + 1].name = n
                      /\ \A j \in BlockStarts(s) : s[j + 1].name = n => j <= i
  IN Program([n \in names |-> DefinitionAt(s, last_of(n))],
             BodyInputs(top), BodyOutputs(top), BodyComponents(top))

\* C14: blank-line tolerance is asymmetric.  Before INPUTS, at top level and at
\* the start of a subcircuit body, each Newline is skipped by a step that
\* changes nothing but the position, and a token list that is grammatical once
\* its blank lines before INPUTS are removed yields the Program of the list
\* without them.  Where OUTPUTS is expected a Newline makes the parse fail at
\* once, with no token consumed.
C14_BlankLinesBeforeInputsOnly ==
  /\ []((Returned /\ Conforms(Unblank(parser.tokens))) =>
          result = Ok(ProgramOf(Unblank(parser.tokens))))
  /\ [][(pc = "inputs_skip" /\ current_token(parser) = Newline) =>
          /\ parser' = parser_advance(parser)
          /\ pc' = "inputs_skip"
          /\ UNCHANGED <<frame, subcircuits, result>>]_vars
  /\ [][(pc = "outputs_expect" /\ current_token(parser) = Newline) =>
          /\ pc' = "done"
          /\ result' = Err(Message("Expected {:?}, found {:?}", <<Outputs, Newline>>))
          /\ UNCHANGED <<parser, frame, subcircuits>>]_vars

\* Two blank lines before the INPUTS of a subcircuit body and of the top level
\* were skipped and a Program with that subcircuit and a component returned.
C14_Witness ==
  /\ ReturnedOk
  /\ Len(parser.tokens) >= Len(Unblank(parser.tokens)) + 4
  /\ parser.tokens[4] = Newline
  /\ parser.tokens[5] = Newline
  /\ DOMAIN result.value.subcircuits = {str(<<"H">>)}
  /\ result.value.inputs = <<str(<<"a">>)>>
  /\ Len(result.value.components) = 1

\* Two blank lines before INPUTS were skipped, and the blank line between the
\* INPUTS line and the OUTPUTS line made the parse fail.
C14_WitnessOutputs ==
  /\ pc = "done"
  /\ result = Err(Message("Expected {:?}, found {:?}", <<Outputs, Newline>>))
  /\ SubSeq(parser.tokens, 1, 3) = <<Newline, Newline, Inputs>>
  /\ current_token(parser) = Newline
  /\ parser.tokens[parser.position + 2] = Outputs

\* C15: the list of an IN( ... ) or OUT( ... ) clause has the form
\* (identifier (COMMA identifier)*)?: whenever the parser has consumed a `(` and
\* the `)` that closes it, the tokens between them are no tokens at all or
\* identifiers separated by one comma each, so a list with two identifiers and
\* no comma between them, a list that starts with a comma and a list that ends
\* in a comma are all rejected.
C15_IdListsGrammatical ==
  \A i \in 1..parser.position :
    parser.tokens[i] = ParenOpen =>
      LET c == IndexOf(parser.tokens, ParenClose, i + 1)
      IN (c # 0 /\ c <= parser.position) =>
           IsIdList(SubSeq(parser.tokens, i + 1, c - 1))

\* The parts of C15 that the parser keeps: behind a consumed `(` ... `)` the
\* list has no leading comma, no doubled comma and no two identifiers in a
\* row; the empty list and the list without a closing comma are accepted.
IdListsButForTrailingComma ==
  \A i \in 1..parser.position :
    parser.tokens[i] = ParenOpen =>
      LET c == IndexOf(parser.tokens, ParenClose, i + 1)
          list == SubSeq(parser.tokens, i + 1, c - 1)
      IN (c # 0 /\ c <= parser.position) =>
           \/ IsIdList(list)
           \/ (Len(list) >= 2 /\ list[Len(list)] = Comma
                /\ IsIdList(SubSeq(list, 1, Len(list) - 1)))

(***************************************************************************)
(* Positions and errors of the lexer (checked under LexerSpec).            *)
(***************************************************************************)
\* The 1-based line and column of index p of src: one more than the line
\* breaks before p, and one more than the characters between the last line
\* break before p (or the start of src) and p.
LineOf(src, p) == 1 + Cardinality({j \in 1..(p - 1) : src[j] = LineFeed})

ColumnOf(src, p) ==
  LET breaks == {j \in 1..(p - 1) : src[j] = LineFeed}
      start == IF breaks = {} THEN 0 ELSE CHOOSE j \in breaks : \A k \in breaks : k <= j
  IN p - start

\* C16: position tracking: when get_next_token returns UnexpectedCharacter(c,
\* loc), c is the character the cursor stands on and loc is its 1-based line
\* and column in the source, also when c was reached across whitespace, line
\* breaks and comments.
C16_ErrorLocationIsCharPosition ==
  (last.tag = "Err" /\ last.value.kind = "UnexpectedCharacter") =>
    LET p == lexer.position + 1
    IN /\ p <= Len(lexer.source)
       /\ last.value = UnexpectedCharacter(lexer.source[p],
                                           Location(LineOf(lexer.source, p),
                                                    ColumnOf(lexer.source, p)))

\* A Newline token, then a comment line, then the character at line 3, column 1.
C16_Witness ==
  /\ direct = 0
  /\ lexer.source = str(<<"\n", "#", "\n", "$">>)
  /\ last = Err(UnexpectedCharacter(ord("$"), Location(3, 1)))
  /\ emitted = <<Newline>>

\* An error at a column other than 1 on a line other than 1, behind a blank.
C16_WitnessColumn ==
  /\ last.tag = "Err"
  /\ last.value.location = Location(2, 3)
  /\ lexer.source[lexer.position] = ord(" ")

(***************************************************************************)
(* The component list (checked under ParserSpec).                          *)
(***************************************************************************)
ComponentStart(t) == t.kind \in PrimitiveKinds \cup {"Identifier"}

\* C17: newlines terminate component statements: parse_component is entered
\* only at the start of a line (the token before the component's first token is
\* a Newline), and parse_program returns no Program for a token list in which
\* a component starts directly behind the `)` that closes the one before it.
C17_ComponentsOnePerLine ==
  /\ pc = "component" => (parser.position >= 1 /\ parser.tokens[parser.position] = Newline)
  /\ ReturnedOk =>
       \A i \in 1..(parser.position - 1) :
         ~(parser.tokens[i] = ParenClose /\ ComponentStart(parser.tokens[i + 1]))

\* The tokens that neither start a component, nor are skipped, nor end the list.
OtherTokens == {Inputs, Outputs, In, Out, Subcircuit, Comma, ParenOpen, ParenClose}

\* C18: component-list termination.  At each test of the loop of
\* parse_component_list: a gate keyword or an Identifier starts
\* parse_component on that token; a Newline is skipped and nothing else
\* changes; END, the EOF token or the exhausted token list ends the list with
\* the components parsed so far and without consuming the token; every other
\* token (INPUTS, OUTPUTS, IN, OUT, SUBCIRCUIT, comma, parentheses) is an
\* error.  So a Program is returned only with END, EOF or nothing as the
\* current token.
C18_ComponentListTermination ==
  /\ [](ReturnedOk => current_token(parser) \in {End, EOF, NoToken})
  /\ [][pc = "component_list" =>
          LET t == current_token(parser)
          IN IF ComponentStart(t)
             THEN pc' = "component" /\ UNCHANGED <<parser, frame, subcircuits, result>>
             ELSE IF t = Newline
             THEN /\ parser'.position = parser.position + 1
                  /\ pc' = "component_list"
                  /\ UNCHANGED <<frame, subcircuits, result>>
             ELSE IF t \in {End, EOF, NoToken}
             THEN /\ UNCHANGED <<parser, frame, subcircuits>>
                  /\ IF frame.in_subcircuit
                     THEN pc' = "subcircuit_end" /\ result' = result
                     ELSE /\ pc' = "done"
                          /\ result'.tag = "Ok"
                          /\ result'.value.components = frame.components
             ELSE /\ t \in OtherTokens
                  /\ pc' = "done"
                  /\ result' = Err(Message("Unexpected token in component list: {:?}", <<t>>))
                  /\ UNCHANGED <<parser, frame, subcircuits>>]_vars

\* A stray OUTPUTS behind a parsed component and a skipped Newline.
C18_Witness ==
  /\ pc = "done"
  /\ result = Err(Message("Unexpected token in component list: {:?}", <<Outputs>>))
  /\ current_token(parser) = Outputs
  /\ parser.tokens[parser.position] = Newline
  /\ Len(frame.components) = 1

\* The list of the top level ended at the exhausted token list, at the EOF
\* token and at END, with a component parsed.
C18_WitnessExhausted ==
  ReturnedOk /\ current_token(parser) = NoToken /\ Len(result.value.components) = 2

C18_WitnessEof ==
  ReturnedOk /\ current_token(parser) = EOF /\ Len(result.value.components) = 2

C18_WitnessEnd ==
  ReturnedOk /\ current_token(parser) = End /\ Len(result.value.components) = 2

(***************************************************************************)
(* Termination of the parser (checked under ParserLiveSpec).               *)
(***************************************************************************)
\* The steps a point of control can take without moving the position before
\* the next step that moves it or returns.
Slack(p) ==
  CASE p \in {"done", "idle"} -> 0
    [] p = "program" -> 3
    [] p \in {"inputs_skip", "component_list", "component_identifier",
              "component_inputs", "component_outputs"} -> 2
    [] OTHER -> 1

\* A bound on the steps left: four for each token not yet consumed, plus the
\* slack of the point of control.
StepsLeft == 4 * (Len(parser.tokens) - parser.position) + Slack(pc)

\* C19: the parser is single-pass and always terminates: the position never
\* decreases and never passes the end of the token list, every step either
\* moves the position forward or comes nearer to a step that does or to the
\* return (StepsLeft decreases at every step, so a parse takes at most
\* 4 * Len(tokens) + 3 steps), no point of control short of the return is
\* stuck, and parse_program returns Ok or Err for every token list, with or
\* without a trailing EOF token.
C19_SinglePassTerminates ==
  /\ [][/\ parser'.position >= parser.position
        /\ parser'.tokens = parser.tokens
        /\ StepsLeft' < StepsLeft]_vars
  /\ [](parser.position <= Len(parser.tokens))
  /\ [](pc # "done" => ENABLED ParserNext)
  /\ <>(pc = "done" /\ result.tag \in {"Ok", "Err"})

\* Two subcircuit blocks and a top level with components, without an EOF
\* token, parsed to the end of the list.
C19_Witness ==
  /\ ReturnedOk
  /\ parser.position = Len(parser.tokens)
  /\ Len(parser.tokens) >= 40
  /\ EOF \notin Range(parser.tokens)
  /\ Len(result.value.components) = 2

(***************************************************************************)
(* Errors of the lexer (checked under LexerSpec).                          *)
(***************************************************************************)
\* C20: a lexical error is sticky: when get_next_token has returned
\* UnexpectedCharacter(c, loc) the cursor stands on c, and a further call of
\* get_next_token (a step that leaves direct as it is) returns the same error
\* and leaves the lexer as it is, so with get_next_token alone EOF is never
\* returned after an error and the tokens collected do not end in EOF.
C20_LexicalErrorSticky ==
  /\ []((last.tag = "Err" /\ direct = 0) => last.value.kind = "UnexpectedCharacter")
  /\ []((last.tag = "Err" /\ last.value.kind = "UnexpectedCharacter") =>
          /\ lexer.current_char = last.value.char
          /\ lexer.position < Len(lexer.source)
          /\ lexer.source[lexer.position + 1] = last.value.char
          /\ ~CollectionDone)
  /\ [][(/\ last.tag = "Err"
          /\ last.value.kind = "UnexpectedCharacter"
          /\ calls' = calls + 1
          /\ direct' = direct) => (last' = last /\ lexer' = lexer)]_vars

\* The error was returned again by two further calls, behind two tokens.
C20_Witness ==
  /\ last.tag = "Err"
  /\ direct = 0
  /\ Len(emitted) = 2
  /\ calls >= Len(emitted) + 3
  /\ lexer.position + 1 < Len(lexer.source)

====
